---- MODULE Spec2Model ----
(***************************************************************************)
(* A model of the severino agent core: the ToolManager registry and its    *)
(* execute_tool dispatch (src/core/tooling/tool_manager.py) and the        *)
(* Agent's directive pipeline (src/core/agent/agent.py).                   *)
(***************************************************************************)
EXTENDS Integers, Sequences, FiniteSets, TLC

VARIABLES
    tools,      \* ToolManager._tools: a dict, name -> definition
    impls,      \* ToolManager._tool_implementations: name -> callable
    insts,      \* ToolManager._tool_instances: name -> capability instance
    lastOk,     \* history: per name, the most recent register_tool call that returned
    last,       \* the observable record of the last ToolManager call
    pc,             \* where Agent.process_directive stands ("idle": no call in progress)
    directive,      \* history: how many directives the Agent has received
    thought_log,    \* ThoughtProcessManager._thought_log
    refactored_data,\* process_directive's local: what _refactor_directive returned
    plan,           \* process_directive's local: what _break_down_task returned
    pos,            \* _execute_plan: the index of the plan step the loop is at
    results,        \* _execute_plan's local list of step results
    current_frame,  \* _execute_plan's local: the frame read from the camera
    loaded_models,  \* _execute_plan's local dict of loaded models
    final_insight,  \* process_directive's local: what _compile_results returned
    session_data,   \* the session_data table rows of the Agent's session: key -> value
    calls,          \* history: the execute_tool calls of the current _execute_plan
    stages,         \* history: the stages the current process_directive call has run
    outcome,        \* how the last process_directive call ended, and with what
    session_writes, \* history: the update_session_data calls of the current directive
    sessions,           \* the sessions table of the store: a set of rows
    messages,           \* the messages table
    code_entities,      \* the code_entities table
    relationships,      \* the relationships table
    session_data_table, \* the session_data table
    sqlite_sequence,    \* AUTOINCREMENT: per table, the last id given out
    now,                \* datetime.now(): the clock, read by every call
    clear,              \* the clear_session_data call in progress, or the last one
    storeCall,          \* the observable record of the last call on the store
    added,              \* history: per session, the messages added and not deleted
    lastSet,            \* history: per (session, key), the text set last
    conversation_history, \* StateManager._conversation_history
    registries,         \* per factory, its class registry (_sensors, _models, _providers)
    factoryCall,        \* the observable record of the last call on a factory
    cap,                \* VideoSensor.cap: None, or the capture it holds
    is_connected,       \* VideoSensor._is_connected
    model,              \* ObjectDetector.model: None, or the loaded YOLO model
    llm_instance,       \* per LLM provider object, its llm_instance (None: not loaded)
    capCall,            \* the observable record of the last call on a capability
    agent,              \* how Agent.__init__ ended, and the Agent's llm_provider
    constructing        \* per WorkingMemoryManager being constructed, how far __init__ is

tmVars == <<tools, impls, insts, lastOk>>
agentVars == <<pc, directive, thought_log, refactored_data, plan, pos, results,
               current_frame, loaded_models, final_insight, session_data, calls,
               stages, outcome, session_writes>>
vars == <<tools, impls, insts, lastOk, last, pc, directive, thought_log,
          refactored_data, plan, pos, results, current_frame, loaded_models,
          final_insight, session_data, calls, stages, outcome, session_writes,
          sessions, messages,
          code_entities, relationships, session_data_table, sqlite_sequence, now,
          clear, storeCall, added, lastSet, conversation_history, registries,
          factoryCall, cap, is_connected, model, llm_instance, capCall, agent,
          constructing>>
storeVars == <<sessions, messages, code_entities, relationships, session_data_table,
               sqlite_sequence, now, clear, storeCall, added, lastSet, conversation_history>>
factoryVars == <<registries, factoryCall>>
capVars == <<cap, is_connected, model, llm_instance, capCall, agent>>
raceVars == <<constructing>>
otherVars == <<storeVars, factoryVars, capVars, raceVars>>

\* Python's None (a missing name, implementation, factory_type, ... argument).
None == "None"

-----------------------------------------------------------------------------
(* The values the ToolManager API is driven with. *)

\* Names handed to register_tool / execute_tool through the public API.
ToolNames == {"t1"}

\* The value of the definition's "side_effects" key ("absent": no such key).
SideEffectValues == {"true", "false", "absent"}

\* implementation=: two plain callables, a concrete ActionInterface subclass, or None.
Callables == {"f", "g"}
Implementations == Callables \cup {"ActionClass", None}

FactoryTypes == {"sensor", "ml_model", "llm", "action", "unknown_type", None}

\* factory_name=: the keys the three factories ship with, or None.
FactoryNames == {"video", "object_detector", "llama_cpp", None}

\* config=: two complete configurations, an empty dict, or None.
Configs == {"c1", "c2", "empty", None}

\* The words typed at the confirmation prompt.
Replies == {"yes", "YES", "no"}

Operations == {"connect", "read_data", "get_status", "release", "load_model",
               "predict", "load_llm", "generate_response", "bogus"}

\* The other keys an args dict carries in this model, besides "operation".
RestKeySets == {{}, {"data"}, {"prompt", "max_tokens"}, {"payload"}}

ArgValue(k) ==
    CASE k = "data" -> "data_value"
      [] k = "prompt" -> "prompt_value"
      [] k = "max_tokens" -> "n_tokens"
      [] OTHER -> "payload_value"

MkArgs(op, rest) ==
    [k \in (IF op = None THEN {} ELSE {"operation"}) \cup rest |->
        IF k = "operation" THEN op ELSE ArgValue(k)]

\* Every operation alone, and the operations that read further keys (and a missing
\* and an unknown one) with each set of further keys.
ArgsSet ==
    {MkArgs(op, {}) : op \in Operations \cup {None}} \cup
    {MkArgs(op, rest) : op \in {"predict", "generate_response", "bogus", None},
                        rest \in RestKeySets}

-----------------------------------------------------------------------------
(* Python dict helpers. *)

\* d.get(k, default)
Get(d, k, default) == IF k \in DOMAIN d THEN d[k] ELSE default

\* the dict left by d.pop(k, ...)
Without(d, k) == [x \in DOMAIN d \ {k} |-> d[x]]

\* the dict after d[k] = v
Put(d, k, v) == [x \in DOMAIN d \cup {k} |-> IF x = k THEN v ELSE d[x]]

EmptyDict == [x \in {} |-> None]

\* str.lower() on the replies of the model
Lower(s) == IF s = "YES" THEN "yes" ELSE s

-----------------------------------------------------------------------------
(* The Python values the Agent handles, by type. *)

PyNone == [kind |-> "NoneType", id |-> 0]
PyBool(b) == [kind |-> "bool", id |-> IF b THEN 1 ELSE 0]

\* The type of a value; the dicts execute_tool builds itself carry no kind.
Kind(v) == IF "kind" \in DOMAIN v THEN v.kind ELSE "dict"

\* bool(v) raises ValueError for a numpy array of more than one element, which is
\* what a camera frame is.
TruthValueRaises(v) == Kind(v) = "ndarray"

\* bool(v) where it is defined.
Truthy(v) ==
    CASE Kind(v) = "NoneType" -> FALSE
      [] Kind(v) = "bool" -> v.id = 1
      [] OTHER -> TRUE

\* A str the code writes into a step result.
Text(s) == [text |-> s]

\* A value of a JSON type (a dict, a list or a str), its content left aside.
Json(type) == [type |-> type]

\* The plan of a process_directive call that has not planned yet.
NoPlan == [type |-> "list", steps |-> <<>>]

NoOutcome == [status |-> "none"]

\* The Agent between construction and its first directive.
AgentIdle ==
    /\ pc = "idle"
    /\ directive = 0
    /\ thought_log = <<>>
    /\ refactored_data = PyNone
    /\ plan = NoPlan
    /\ pos = 0
    /\ results = <<>>
    /\ current_frame = PyNone
    /\ loaded_models = EmptyDict
    /\ final_insight = PyNone
    /\ session_data = EmptyDict
    /\ calls = <<>>
    /\ stages = <<>>
    /\ outcome = NoOutcome
    /\ session_writes = <<>>

-----------------------------------------------------------------------------
(* The factories: SensorFactory.create_sensor, MLModelFactory.create_model, *)
(* LLMFactory.create_provider.  Each returns an instance or raises.         *)

FactoryRegistry(ftype) ==
    CASE ftype = "sensor" -> {"video"}
      [] ftype = "ml_model" -> {"object_detector"}
      [] ftype = "llm" -> {"llama_cpp"}
      [] OTHER -> {}

\* VideoSensor needs config["rtsp_url"], LlamaCppProvider config["model_path"];
\* ObjectDetector falls back to a default model path.
ConstructorRaises(ftype, config) ==
    ftype \in {"sensor", "llm"} /\ config = "empty"

\* An instance is identified by its interface kind and the config it was built from.
FactoryCreate(ftype, fname, config) ==
    IF fname \notin FactoryRegistry(ftype) THEN [error |-> "not_registered"]
    ELSE IF ConstructorRaises(ftype, config) THEN [error |-> "bad_config"]
    ELSE [error |-> None, instance |-> [kind |-> ftype, id |-> config]]

-----------------------------------------------------------------------------
(* ToolManager.register_tool *)

Definition(name, se) == [name |-> name, side_effects |-> se]

\* The registry after register_tool(definition, implementation, factory_type,
\* factory_name, config), and the error it raised (None: it returned).
RegisterTool(t, im, ins, def, impl, ftype, fname, config) ==
    IF def.name = None
    THEN [tools |-> t, impls |-> im, insts |-> ins, error |-> "no_name"]
    ELSE
    LET n  == def.name
        t1 == Put(t, n, def)
    IN  IF ftype # None
        THEN IF ftype \in {"sensor", "ml_model", "llm"}
             THEN IF fname = None \/ config = None
                  THEN [tools |-> t1, impls |-> im, insts |-> ins,
                        error |-> "incomplete_factory_spec"]
                  ELSE LET c == FactoryCreate(ftype, fname, config)
                       IN  IF c.error # None
                           THEN [tools |-> t1, impls |-> im, insts |-> ins,
                                 error |-> c.error]
                           ELSE [tools |-> t1, impls |-> im,
                                 insts |-> Put(ins, n, c.instance),
                                 error |-> None]
             ELSE IF ftype = "action"
             THEN IF impl # "ActionClass"
                  THEN [tools |-> t1, impls |-> im, insts |-> ins,
                        error |-> "not_an_action_class"]
                  ELSE [tools |-> t1, impls |-> im,
                        insts |-> Put(ins, n,
                            [kind |-> "action",
                             id |-> IF config # None THEN config ELSE "empty"]),
                        error |-> None]
             ELSE [tools |-> t1, impls |-> im, insts |-> ins,
                   error |-> "unknown_factory_type"]
        ELSE IF impl # None
        THEN [tools |-> t1, impls |-> Put(im, n, impl), insts |-> ins,
              error |-> None]
        ELSE [tools |-> t1, impls |-> im, insts |-> ins, error |-> "neither"]

\* What a register_tool call that returned has registered under the name.
Registered(def, impl, ftype, config) ==
    [definition |-> def,
     target |->
        IF ftype = None THEN [kind |-> "callable", id |-> impl]
        ELSE IF ftype = "action"
        THEN [kind |-> "action", id |-> IF config # None THEN config ELSE "empty"]
        ELSE [kind |-> ftype, id |-> config]]

-----------------------------------------------------------------------------
(* ToolManager.execute_tool *)

Cancelled == [status |-> "cancelled", message |-> "Tool execution cancelled by user."]
ErrorResult == [status |-> "error", message |-> "exception text"]
NoResult == [status |-> "no result"]

\* The value a method of a target returns: the model keeps whose it is.
Ret(target, method) == [returned_by |-> target, method |-> method]

NoTarget == [kind |-> None, id |-> None]
ConfirmEvent == [e |-> "confirm", target |-> NoTarget, method |-> None, arg |-> EmptyDict]
Invoke(target, method, arg) ==
    [e |-> "invoke", target |-> target, method |-> method, arg |-> arg]

Returned(events, result, args) ==
    [events |-> events, raised |-> None, result |-> result, args |-> args]
Raised(events, error, args) ==
    [events |-> events, raised |-> error, result |-> NoResult, args |-> args]

\* One interface method is called and its result handed back.
CallMethod(instance, method, arg, args) ==
    Returned(<<Invoke(instance, method, arg)>>, Ret(instance, method), args)

\* SensorDispatch without its final else: an unknown operation reads data.
SensorDispatchNoReject(instance, args) ==
    LET operation == Get(args, "operation", "read_data")
        rest == Without(args, "operation")
    IN  IF operation \in {"connect", "get_status", "release"}
        THEN CallMethod(instance, operation, EmptyDict, rest)
        ELSE CallMethod(instance, "read_data", EmptyDict, rest)

SensorDispatch(instance, args) ==
    LET operation == Get(args, "operation", "read_data")
        rest == Without(args, "operation")
    IN  IF operation \in {"connect", "read_data", "get_status", "release"}
        THEN CallMethod(instance, operation, EmptyDict, rest)
        ELSE Raised(<<>>, "unsupported_operation", rest)

MLModelDispatch(instance, args) ==
    LET operation == Get(args, "operation", "predict")
        rest == Without(args, "operation")
    IN  IF operation = "load_model" THEN CallMethod(instance, "load_model", EmptyDict, rest)
        ELSE IF operation = "predict"
        THEN IF "data" \in DOMAIN rest
             THEN CallMethod(instance, "predict", [data |-> rest["data"]],
                             Without(rest, "data"))
             ELSE Raised(<<>>, "KeyError", rest)
        ELSE IF operation = "get_status"
        THEN CallMethod(instance, "get_status", EmptyDict, rest)
        ELSE Raised(<<>>, "unsupported_operation", rest)

\* LLMDispatch handing generate_response the prompt alone, the other arguments dropped.
LLMDispatchDropsArgs(instance, args) ==
    LET operation == Get(args, "operation", "generate_response")
        rest == Without(args, "operation")
    IN  IF operation = "load_llm" THEN CallMethod(instance, "load_llm", EmptyDict, rest)
        ELSE IF operation = "generate_response"
        THEN IF "prompt" \in DOMAIN rest
             THEN CallMethod(instance, "generate_response", [prompt |-> rest["prompt"]],
                             Without(rest, "prompt"))
             ELSE Raised(<<>>, "KeyError", rest)
        ELSE IF operation = "get_status"
        THEN CallMethod(instance, "get_status", EmptyDict, rest)
        ELSE Raised(<<>>, "unsupported_operation", rest)

LLMDispatch(instance, args) ==
    LET operation == Get(args, "operation", "generate_response")
        rest == Without(args, "operation")
    IN  IF operation = "load_llm" THEN CallMethod(instance, "load_llm", EmptyDict, rest)
        ELSE IF operation = "generate_response"
        THEN IF "prompt" \in DOMAIN rest
             THEN CallMethod(instance, "generate_response", rest,
                             Without(rest, "prompt"))
             ELSE Raised(<<>>, "KeyError", rest)
        ELSE IF operation = "get_status"
        THEN CallMethod(instance, "get_status", EmptyDict, rest)
        ELSE Raised(<<>>, "unsupported_operation", rest)

ActionDispatch(instance, args) ==
    CallMethod(instance, "execute", [payload |-> Get(args, "payload", "empty_dict")],
               Without(args, "payload"))

\* CallableDispatch without its try: the callable's exception leaves execute_tool.
CallableDispatchNoTry(impl, args, implRaises) ==
    LET target == [kind |-> "callable", id |-> impl]
    IN  IF implRaises THEN Raised(<<Invoke(target, "__call__", args)>>, "Exception", args)
        ELSE Returned(<<Invoke(target, "__call__", args)>>, Ret(target, "__call__"), args)

\* implementation(**args) inside try/except Exception
CallableDispatch(impl, args, implRaises) ==
    LET target == [kind |-> "callable", id |-> impl]
    IN  Returned(<<Invoke(target, "__call__", args)>>,
                 IF implRaises THEN ErrorResult ELSE Ret(target, "__call__"),
                 args)

\* Lines 108-161: instances are looked up first, then direct callables.
Dispatch(im, ins, name, args, implRaises) ==
    IF name \in DOMAIN ins
    THEN LET instance == ins[name]
         IN  CASE instance.kind = "sensor" -> SensorDispatch(instance, args)
               [] instance.kind = "ml_model" -> MLModelDispatch(instance, args)
               [] instance.kind = "llm" -> LLMDispatch(instance, args)
               [] instance.kind = "action" -> ActionDispatch(instance, args)
               [] OTHER -> Raised(<<>>, "unsupported_instance_type", args)
    ELSE IF name \in DOMAIN im
    THEN CallableDispatch(im[name], args, implRaises)
    ELSE Raised(<<>>, "not_properly_initialized", args)

HasSideEffects(def) == def.side_effects = "true"

\* Whether execute_tool stops at the confirmation prompt.
Gated(t, name, require_confirmation) ==
    /\ name \in DOMAIN t
    /\ require_confirmation
    /\ HasSideEffects(t[name])

Affirmative(reply) == Lower(reply) = "yes"

\* execute_tool(name, args, require_confirmation), with what the user types if asked
\* and whether a direct callable raises: the events in order, the value returned or
\* the error raised, and the caller's args dict afterwards.
ExecuteTool(t, im, ins, name, args, require_confirmation, reply, implRaises) ==
    IF name \notin DOMAIN t THEN Raised(<<>>, "not_found", args)
    ELSE IF Gated(t, name, require_confirmation)
    THEN IF ~Affirmative(reply)
         THEN Returned(<<ConfirmEvent>>, Cancelled, args)
         ELSE LET d == Dispatch(im, ins, name, args, implRaises)
              IN  [d EXCEPT !.events = <<ConfirmEvent>> \o @]
    ELSE Dispatch(im, ins, name, args, implRaises)

-----------------------------------------------------------------------------
(* The ToolManager driven through its public API. *)

-----------------------------------------------------------------------------
(* The class registries of SensorFactory, MLModelFactory and LLMFactory    *)
(* (perception/sensor_factory.py, ml_models/ml_model_factory.py,           *)
(* llm_inference/llm_factory.py).                                          *)

\* A class: the interface it inherits from (None: none of the three), whether it
\* leaves abstract methods unimplemented, and the config key its __init__ insists on.
Class(name, interface, abstract, requires) == [cls |-> name, interface |-> interface, abstract |-> abstract, requires |-> requires]

VideoSensor == Class("VideoSensor", "sensor", FALSE, "rtsp_url")
ObjectDetector == Class("ObjectDetector", "ml_model", FALSE, None)
LlamaCppProvider == Class("LlamaCppProvider", "llm", FALSE, "model_path")

\* The classes of the tests: full implementations that keep the interface's __init__.
MockSensor == Class("MockSensor", "sensor", FALSE, None)
MockLLMProvider == Class("MockLLMProvider", "llm", FALSE, None)

\* The interface itself, a subclass of itself that cannot be instantiated.
SensorInterface == Class("SensorInterface", "sensor", TRUE, None)

MagicMock == Class("MagicMock", None, FALSE, None)

Classes == {VideoSensor, ObjectDetector, LlamaCppProvider, MockSensor, MockLLMProvider, SensorInterface, MagicMock}

Factories == {"sensor", "ml_model", "llm"}

\* The class attribute each factory module defines: one built-in class under its key.
BuiltIn(ftype) ==
    CASE ftype = "sensor" -> [n \in {"video"} |-> VideoSensor]
      [] ftype = "ml_model" -> [n \in {"object_detector"} |-> ObjectDetector]
      [] OTHER -> [n \in {"llama_cpp"} |-> LlamaCppProvider]

NoFactoryCall == [op |-> "none"]

\* The factories as their modules define them.
FactoryIdle ==
    /\ registries = [ftype \in Factories |-> BuiltIn(ftype)]
    /\ factoryCall = NoFactoryCall

-----------------------------------------------------------------------------
(* The SQLite store of LongTermMemoryManager                               *)
(* (src/core/memory/long_term_memory_manager.py): five tables, each a set  *)
(* of rows, as _initialize_db leaves them.                                 *)

\* No call on the store is issued once the clock reads MaxClock.
MaxClock == 3

SessionIds == {"s1", "s2"}
Keys == {"k1", "k2"}

\* The callers that construct a WorkingMemoryManager at the same time.
Constructors == {"m1", "m2"}

\* No WorkingMemoryManager is being constructed.
NoConstruction == [p \in Constructors |-> [at |-> "none", session_id |-> None, project_root |-> None, raised |-> None]]

NoClear == [status |-> "idle", session_id |-> None, done |-> 0, removed |-> FALSE, written |-> FALSE]

\* The store after LongTermMemoryManager.__init__ on a new database file, and a
\* StateManager with no state file.
StoreIdle ==
    /\ sessions = {}
    /\ messages = {}
    /\ code_entities = {}
    /\ relationships = {}
    /\ session_data_table = {}
    /\ sqlite_sequence = [t \in {"messages", "code_entities", "relationships"} |-> 0]
    /\ now = 0
    /\ clear = NoClear
    /\ storeCall = [op |-> "none"]
    /\ added = [S \in SessionIds |-> <<>>]
    /\ lastSet = [sk \in SessionIds \X Keys |-> None]
    /\ conversation_history = <<>>
    /\ constructing = NoConstruction

-----------------------------------------------------------------------------
(* The capability objects: a VideoSensor, an ObjectDetector and the        *)
(* LlamaCppProvider objects the factory has built, as their __init__       *)
(* leaves them, and the Agent.                                             *)

NoCapCall == [op |-> "none"]

\* No Agent has been constructed.  load_llm is what the provider's load_llm returned
\* ("True", "False"; None: it was not called).
NotConstructed == [status |-> "none", error |-> None, llm_provider |-> None, load_llm |-> None]

\* video_sensor.py lines 16-17, object_detector.py line 14, llama_cpp_provider.py
\* line 24, for the provider objects that exist.
Capabilities(provider_ids) ==
    /\ cap = None
    /\ is_connected = FALSE
    /\ model = None
    /\ llm_instance = [p \in provider_ids |-> None]
    /\ capCall = NoCapCall

CapIdle == Capabilities({}) /\ agent = NotConstructed

\* Agent.__init__ has returned: its provider is loaded, the provider register_tool
\* built for 'agent_llm_inference' is not.
AgentConstructed ==
    /\ cap = None
    /\ is_connected = FALSE
    /\ model = None
    /\ llm_instance = [p \in {"agent_llm", "agent_llm_inference"} |-> IF p = "agent_llm" THEN "Llama" ELSE None]
    /\ capCall = NoCapCall
    /\ agent = [status |-> "constructed", error |-> None, llm_provider |-> "agent_llm", load_llm |-> "True"]

NoCall == [op |-> "none"]

TMInit ==
    /\ tools = EmptyDict
    /\ impls = EmptyDict
    /\ insts = EmptyDict
    /\ lastOk = EmptyDict

Init ==
    /\ TMInit
    /\ last = NoCall
    /\ AgentIdle
    /\ StoreIdle
    /\ FactoryIdle
    /\ CapIdle

\* The observed call has been made.
Observed == last.op = "execute"

\* Arguments register_tool does not read on the path taken keep their default (None).
FactoryNamesFor(ftype) ==
    IF ftype \in {"sensor", "ml_model", "llm"} THEN FactoryNames ELSE {None}
ConfigsFor(ftype) ==
    IF ftype \in {"sensor", "ml_model", "llm", "action"} THEN Configs ELSE {None}
ImplementationsFor(ftype) ==
    IF ftype \in {"sensor", "ml_model", "llm", "unknown_type"}
    THEN {None, "f"} ELSE Implementations

\* A caller calls register_tool.
Register ==
    /\ ~Observed
    /\ \E name \in ToolNames \cup {None} :
       \E se \in (IF name = None THEN {"absent"} ELSE SideEffectValues),
          ftype \in (IF name = None THEN {None} ELSE FactoryTypes) :
       \E impl \in ImplementationsFor(ftype), fname \in FactoryNamesFor(ftype),
          config \in ConfigsFor(ftype) :
        LET def == Definition(name, se)
            r == RegisterTool(tools, impls, insts, def, impl, ftype, fname, config)
        IN  /\ tools' = r.tools
            /\ impls' = r.impls
            /\ insts' = r.insts
            /\ lastOk' = IF r.error = None
                         THEN Put(lastOk, name, Registered(def, impl, ftype, config))
                         ELSE lastOk
            /\ last' = [op |-> "register", name |-> name, raised |-> r.error # None]
            /\ UNCHANGED <<agentVars, otherVars>>

\* A caller calls execute_tool; the user answers the prompt if there is one; a direct
\* callable returns or raises.  execute_tool writes none of the three dicts, so every
\* registry a longer run reaches is reached before the call that is observed.
Execute ==
    /\ ~Observed
    /\ \E name \in ToolNames, args \in ArgsSet, rc \in BOOLEAN :
       \E reply \in (IF Gated(tools, name, rc) THEN Replies ELSE {None}),
          implRaises \in (IF name \in DOMAIN insts THEN {FALSE} ELSE BOOLEAN) :
        LET out == ExecuteTool(tools, impls, insts, name, args, rc, reply, implRaises)
        IN  /\ last' = [op |-> "execute", name |-> name, args |-> args, rc |-> rc,
                        reply |-> reply, implRaises |-> implRaises, out |-> out]
            /\ UNCHANGED tmVars
            /\ UNCHANGED <<agentVars, otherVars>>

Next == Register \/ Execute

Spec == Init /\ [][Next]_vars

-----------------------------------------------------------------------------
(* ToolManager.get_tool_definition *)

GetToolDefinition(t, name) == Get(t, name, None)

-----------------------------------------------------------------------------
(* Vocabulary of the ToolManager properties. *)

\* The tool a name stands for: what the most recent register_tool call that
\* returned has registered under it.
IsTool(n) == n \in DOMAIN lastOk
ToolDef(n) == lastOk[n].definition
ToolTarget(n) == lastOk[n].target

InstanceKinds == {"sensor", "ml_model", "llm", "action"}

Confirmations(out) == SelectSeq(out.events, LAMBDA ev : ev.e = "confirm")
Invocations(out) == SelectSeq(out.events, LAMBDA ev : ev.e = "invoke")

\* The operation set of each interface kind and the operation taken when none is given.
OperationSet(kind) ==
    CASE kind = "sensor" -> {"connect", "read_data", "get_status", "release"}
      [] kind = "ml_model" -> {"load_model", "predict", "get_status"}
      [] kind = "llm" -> {"load_llm", "generate_response", "get_status"}
      [] OTHER -> {}
DefaultOperation(kind) ==
    CASE kind = "sensor" -> "read_data"
      [] kind = "ml_model" -> "predict"
      [] kind = "llm" -> "generate_response"
      [] OTHER -> "execute"

\* The interface call the spec prescribes for args on an instance of the kind.
PrescribedMethod(kind, args) ==
    IF kind = "action" THEN "execute" ELSE Get(args, "operation", DefaultOperation(kind))
PrescribedArgument(kind, args) ==
    LET m == PrescribedMethod(kind, args)
    IN  CASE kind = "ml_model" /\ m = "predict" -> [data |-> args["data"]]
          [] kind = "llm" /\ m = "generate_response" -> Without(args, "operation")
          [] kind = "action" -> [payload |-> Get(args, "payload", "empty_dict")]
          [] OTHER -> EmptyDict
\* The call names an operation of the kind and carries the argument it needs.
WellFormedCall(kind, args) ==
    LET m == PrescribedMethod(kind, args)
    IN  /\ kind \in {"sensor", "ml_model", "llm"} => m \in OperationSet(kind)
        /\ (kind = "ml_model" /\ m = "predict") => "data" \in DOMAIN args
        /\ (kind = "llm" /\ m = "generate_response") => "prompt" \in DOMAIN args

-----------------------------------------------------------------------------
(* Properties of the ToolManager. *)

\* C1: for a tool whose definition has side_effects=true, execute_tool with
\* require_confirmation=true asks for confirmation exactly once, before anything is
\* invoked; a reply other than 'yes' returns the cancelled result and invokes
\* nothing; after 'yes' the tool's implementation / instance is invoked exactly once
\* (calls that the dispatch rejects with an error are left aside).
C1_ConfirmationGate ==
    (/\ Observed
     /\ IsTool(last.name)
     /\ ToolDef(last.name).side_effects = "true"
     /\ last.rc)
    => LET out == last.out
       IN  /\ Len(Confirmations(out)) = 1
           /\ out.events[1].e = "confirm"
           /\ ~Affirmative(last.reply) =>
                /\ out.result = Cancelled
                /\ out.raised = None
                /\ Invocations(out) = <<>>
           /\ (Affirmative(last.reply) /\ out.raised = None) =>
                /\ Len(Invocations(out)) = 1
                /\ Invocations(out)[1].target = ToolTarget(last.name)

\* C4: last registration wins: get_tool_definition returns the definition of the most
\* recent register_tool call that succeeded for the name, and whatever execute_tool
\* invokes for the name is the implementation or instance that call supplied.
C4_LastRegistrationWins ==
    \A n \in ToolNames :
        IsTool(n) =>
            /\ GetToolDefinition(tools, n) = ToolDef(n)
            /\ (Observed /\ last.name = n) =>
                 \A i \in 1..Len(last.out.events) :
                    last.out.events[i].e = "invoke" =>
                        last.out.events[i].target = ToolTarget(n)

\* C5: execute_tool with a name that is not registered fails with a 'not found'
\* error, asks no confirmation, invokes nothing and leaves the registry unchanged.
C5_UnregisteredNotFound ==
    [][(~Observed /\ Observed' /\ ~IsTool(last'.name)) =>
          /\ last'.out.raised \in {"not_found", "not_properly_initialized"}
          /\ last'.out.events = <<>>
          /\ UNCHANGED <<tools, impls, insts>>]_vars

\* C6: for a tool registered as a direct callable whose call is not gated
\* (side_effects false or absent, or require_confirmation=false), execute_tool asks
\* no confirmation, invokes the callable exactly once with args as keyword
\* parameters, and returns what the callable returns.
C6_UngatedCallable ==
    (/\ Observed
     /\ IsTool(last.name)
     /\ ToolTarget(last.name).kind = "callable"
     /\ ~(last.rc /\ ToolDef(last.name).side_effects = "true"))
    => LET out == last.out
       IN  /\ out.events = <<Invoke(ToolTarget(last.name), "__call__", last.args)>>
           /\ out.raised = None
           /\ ~last.implRaises => out.result = Ret(ToolTarget(last.name), "__call__")

\* C7: for a tool backed by a capability instance, a call that passes the
\* confirmation gate and names an operation of the instance's kind invokes exactly
\* one interface method, the one prescribed for the kind and args['operation']
\* (read_data / predict / generate_response when none is given, execute for an
\* action) with the prescribed argument, and returns that method's result unchanged.
C7_InstanceDispatch ==
    (/\ Observed
     /\ IsTool(last.name)
     /\ ToolTarget(last.name).kind \in InstanceKinds
     /\ last.out.result # Cancelled
     /\ WellFormedCall(ToolTarget(last.name).kind, last.args))
    => LET out == last.out
           kind == ToolTarget(last.name).kind
           m == PrescribedMethod(kind, last.args)
       IN  /\ Invocations(out) =
                <<Invoke(ToolTarget(last.name), m, PrescribedArgument(kind, last.args))>>
           /\ out.raised = None
           /\ out.result = Ret(ToolTarget(last.name), m)

\* A generation on an LLM tool with no operation given: the prompt and the other
\* arguments reach generate_response, whose result comes back.
C7_Witness ==
    /\ Observed
    /\ IsTool(last.name)
    /\ ToolTarget(last.name).kind = "llm"
    /\ DOMAIN last.args = {"prompt", "max_tokens"}
    /\ last.out.result = Ret(ToolTarget(last.name), "generate_response")
    /\ Len(Invocations(last.out)) = 1

\* C8: for a sensor, ML-model or LLM tool, a call that passes the confirmation gate
\* with an operation outside the kind's operation set fails with the 'unsupported
\* operation' error and invokes no method.
C8_UnsupportedOperation ==
    (/\ Observed
     /\ IsTool(last.name)
     /\ ToolTarget(last.name).kind \in {"sensor", "ml_model", "llm"}
     /\ last.out.result # Cancelled
     /\ "operation" \in DOMAIN last.args
     /\ last.args["operation"] \notin OperationSet(ToolTarget(last.name).kind))
    => /\ last.out.raised = "unsupported_operation"
       /\ Invocations(last.out) = <<>>

\* A sensor tool asked to predict, confirmed by the user, and refused.
C8_Witness ==
    /\ Observed
    /\ IsTool(last.name)
    /\ ToolTarget(last.name).kind = "sensor"
    /\ Get(last.args, "operation", None) = "predict"
    /\ last.reply = "yes"
    /\ last.out.raised = "unsupported_operation"

-----------------------------------------------------------------------------
(* Bounds of the Agent model. *)

\* The longest plan the planning LLM answers with.
MaxPlanLen == 3

\* How many directives one Agent is given.
MaxDirectives == 2

-----------------------------------------------------------------------------
(* Agent.__init__ and the tools of a deployment. *)

ToolSpec(name, se, impl, ftype, fname, config) ==
    [definition |-> Definition(name, se), implementation |-> impl,
     factory_type |-> ftype, factory_name |-> fname, config |-> config]

RegisterSpec(t, im, ins, reg) ==
    RegisterTool(t, im, ins, reg.definition, reg.implementation, reg.factory_type,
                 reg.factory_name, reg.config)

\* The two register_tool calls of _register_core_tools.
CoreToolSpecs ==
    << ToolSpec("run_shell_command", "true", "_run_shell_command_impl", None, None, None),
       ToolSpec("agent_llm_inference", "false", None, "llm", "llama_cpp", "llm_config") >>

\* The registry a constructed Agent holds.
CoreTools ==
    LET r == RegisterSpec(EmptyDict, EmptyDict, EmptyDict, CoreToolSpecs[1])
    IN  RegisterSpec(r.tools, r.impls, r.insts, CoreToolSpecs[2])

\* The capability tools a deployment registers, in its order: the camera, the
\* detector, the notification action.
CapabilityToolSpecs ==
    << ToolSpec("main_camera_sensor", "true", None, "sensor", "video", "camera_config"),
       ToolSpec("object_detection_model", "false", None, "ml_model", "object_detector",
                "detector_config"),
       ToolSpec("send_alert_notification", "true", "ActionClass", "action", None,
                "notification_config") >>

-----------------------------------------------------------------------------
(* The LLM's answers and what json.loads makes of them. *)

LLMTexts == {"not json", "json object", "json array", "json string"}

\* json.loads raises JSONDecodeError
ParseFails(text) == text = "not json"

JsonLoads(text) ==
    CASE text = "json object" -> Json("dict")
      [] text = "json array" -> Json("list")
      [] OTHER -> Json("str")

\* Line 126: what _refactor_directive returns when the LLM's text does not parse.
RefactorFallback(d, text) == [type |-> "dict", raw_directive |-> d, interpretation_error |-> text]

\* Line 282: what _compile_results returns when the LLM's text does not parse.
CompileFallback(execution_results, text) == [type |-> "dict", raw_results |-> execution_results, compilation_error |-> text]

\* The "data" a planned predict step carries.
Placeholder == [kind |-> "str", id |-> 0]

ToolCall(tool_name, args) == [tool_name |-> tool_name, args |-> args]

\* The steps a plan of the LLM is made of: one without a tool call, a camera
\* read, a model load, a prediction, an alert, a shell command, a tool nobody
\* registered.
StepSet ==
    { [description |-> "analyse"],
      [description |-> "read frame",
       tool_call |-> ToolCall("main_camera_sensor", [operation |-> "read_data"])],
      [description |-> "load model",
       tool_call |-> ToolCall("object_detection_model", [operation |-> "load_model"])],
      [description |-> "predict",
       tool_call |-> ToolCall("object_detection_model",
                              [operation |-> "predict", data |-> Placeholder])],
      [description |-> "alert",
       tool_call |-> ToolCall("send_alert_notification", [payload |-> "payload_value"])],
      [description |-> "shell",
       tool_call |-> ToolCall("run_shell_command", [command |-> "ls"])],
      [description |-> "other",
       tool_call |-> ToolCall("unknown_tool", EmptyDict)] }

Plans == UNION {[1..n -> StepSet] : n \in 0..MaxPlanLen}

\* The single step _break_down_task answers with when the LLM's plan does not parse.
FallbackStep ==
    [description |-> "Failed to generate refined plan from LLM.", error |-> "not json"]

\* The planning LLM's answers: no JSON, a JSON list of steps, a JSON string.
PlanResponses ==
    {[text |-> "not json", steps |-> <<>>], [text |-> "json string", steps |-> <<>>]}
    \cup {[text |-> "json array", steps |-> p] : p \in Plans}

RefinedPlan(response) ==
    IF ParseFails(response.text) THEN [type |-> "list", steps |-> <<FallbackStep>>]
    ELSE IF response.text = "json array" THEN [type |-> "list", steps |-> response.steps]
    ELSE [type |-> "str", steps |-> <<>>]

-----------------------------------------------------------------------------
(* Agent._execute_plan: one iteration of its loop. *)

\* What the interface method behind an operation returns at step i: a camera read
\* gives None, a frame (a numpy array) or another non-empty reading; a model load
\* gives True or False; any other call a dict or list of its own.
MethodReturns(operation, i) ==
    CASE operation = "read_data" ->
            {PyNone, [kind |-> "ndarray", id |-> i], [kind |-> "object", id |-> i]}
      [] operation = "load_model" -> {PyBool(TRUE), PyBool(FALSE)}
      [] OTHER -> {[kind |-> "list", id |-> i]}

StepReturns(step, i) ==
    LET tool_call == Get(step, "tool_call", EmptyDict)
    IN  IF DOMAIN tool_call = {} THEN {PyNone}
        ELSE MethodReturns(Get(Get(tool_call, "args", EmptyDict), "operation", None), i)

\* What the Agent keeps of an execute_tool call made at step i: the value the method
\* invoked returned, or the dict execute_tool built itself.
CallRecord(out, i, name, args, require_confirmation, value) ==
    [pos |-> i, name |-> name, args |-> args, rc |-> require_confirmation,
     events |-> out.events, raised |-> out.raised, args_after |-> out.args,
     value |-> IF "returned_by" \in DOMAIN out.result THEN value ELSE out.result]

\* The call self.tool_manager.execute_tool(name, args, require_confirmation) made at
\* step i, and what came of it.  _run_shell_command_impl catches what it raises.
ToolCallMade(t, im, ins, i, name, args, require_confirmation, reply, value) ==
    CallRecord(ExecuteTool(t, im, ins, name, args, require_confirmation, reply, FALSE),
               i, name, args, require_confirmation, value)

StepDone(step_result, frame, loaded, made, step) ==
    [raised |-> None, step_result |-> step_result, current_frame |-> frame,
     loaded_models |-> loaded, calls |-> made, step |-> step]

StepRaised(error, frame, loaded, made, step) ==
    [raised |-> error, step_result |-> EmptyDict, current_frame |-> frame,
     loaded_models |-> loaded, calls |-> made, step |-> step]

\* The step dict after execute_tool has popped keys from the args dict it was handed.
WithArgs(step, args) ==
    IF "args" \in DOMAIN step.tool_call
    THEN Put(step, "tool_call", Put(step.tool_call, "args", args))
    ELSE step

Failed(step_result, reason) == Put(Put(step_result, "status", "failed"), "error", Text(reason))

\* Line 228 with the frame test left out: a loaded model is enough to predict.
CanPredictModelOnly(frame, loaded) ==
    Get(loaded, "object_detection_model", FALSE)

\* Line 228: a frame has been captured and the model has been loaded.
CanPredict(frame, loaded) ==
    frame # PyNone /\ Get(loaded, "object_detection_model", FALSE)

\* Lines 204-212: the read_data branch, c the execute_tool call made.
ReadFrame(c, step_result, frame, loaded, step) ==
    IF c.raised # None
    THEN StepRaised(c.raised, frame, loaded, <<c>>, step)
    ELSE IF TruthValueRaises(c.value)
    THEN StepRaised("ValueError", frame, loaded, <<c>>, WithArgs(step, c.args_after))
    ELSE IF Truthy(c.value) /\ c.value # PyNone
    THEN StepDone(Put(step_result, "result", Text("Frame captured.")), c.value, loaded,
                  <<c>>, WithArgs(step, c.args_after))
    ELSE StepDone(Failed(step_result, "Failed to capture frame."), frame, loaded, <<c>>,
                  WithArgs(step, c.args_after))

\* Lines 219-226: the load_model branch.
LoadModel(c, step_result, frame, loaded, step) ==
    IF c.raised # None
    THEN StepRaised(c.raised, frame, loaded, <<c>>, step)
    ELSE IF Truthy(c.value)
    THEN StepDone(Put(step_result, "result", Text("Model loaded.")), frame,
                  Put(loaded, "object_detection_model", TRUE), <<c>>,
                  WithArgs(step, c.args_after))
    ELSE StepDone(Failed(step_result, "Failed to load model."), frame, loaded, <<c>>,
                  WithArgs(step, c.args_after))

\* Lines 232-233: the predict call was made on a copy of the step's args.
Predicted(c, step_result, frame, loaded, step) ==
    IF c.raised # None
    THEN StepRaised(c.raised, frame, loaded, <<c>>, step)
    ELSE StepDone(Put(step_result, "result", [detections |-> c.value]), frame, loaded,
                  <<c>>, step)

\* Lines 215-216, 240-241, 245-246: the call's result is the step's result.  The
\* alert and the shell command are handed a dict built for the call (fresh), the
\* other sensor operations the step's own args.
Called(c, step_result, frame, loaded, step, fresh) ==
    IF c.raised # None
    THEN StepRaised(c.raised, frame, loaded, <<c>>, step)
    ELSE StepDone(Put(step_result, "result", c.value), frame, loaded, <<c>>,
                  IF fresh THEN step ELSE WithArgs(step, c.args_after))

\* Lines 250-255: any other tool, inside try/except Exception.
CalledGuarded(c, step_result, frame, loaded, step) ==
    IF c.raised # None
    THEN StepDone(Put(Put(step_result, "status", "error"), "error", Text(c.raised)),
                  frame, loaded, <<c>>, WithArgs(step, c.args_after))
    ELSE StepDone(Put(step_result, "result", c.value), frame, loaded, <<c>>,
                  WithArgs(step, c.args_after))

\* Lines 199-255: the step has a tool call.
ExecuteToolCall(t, im, ins, step, step_result, tool_name, args, i, frame, loaded, reply, value) ==
    CASE tool_name = "main_camera_sensor" ->
            IF Get(args, "operation", None) = "read_data"
            THEN ReadFrame(ToolCallMade(t, im, ins, i, tool_name, args, FALSE, reply,
                                        value),
                           step_result, frame, loaded, step)
            ELSE Called(ToolCallMade(t, im, ins, i, tool_name, args, FALSE, reply,
                                     value),
                        step_result, frame, loaded, step, FALSE)
      [] tool_name = "object_detection_model" ->
            IF Get(args, "operation", None) = "load_model"
            THEN LoadModel(ToolCallMade(t, im, ins, i, tool_name, args, FALSE, reply,
                                        value),
                           step_result, frame, loaded, step)
            ELSE IF Get(args, "operation", None) = "predict"
            THEN IF CanPredict(frame, loaded)
                 THEN Predicted(ToolCallMade(t, im, ins, i, tool_name,
                                             Put(args, "data", frame), FALSE, reply,
                                             value),
                                step_result, frame, loaded, step)
                 ELSE StepDone(
                        Put(Put(step_result, "status", "skipped"), "error",
                            Text("No frame or model not loaded for prediction.")),
                        frame, loaded, <<>>, step)
            ELSE StepDone(step_result, frame, loaded, <<>>, step)
      [] tool_name = "send_alert_notification" ->
            Called(ToolCallMade(t, im, ins, i, tool_name,
                                [payload |-> Get(args, "payload", "empty_dict")],
                                TRUE, reply, value),
                   step_result, frame, loaded, step, TRUE)
      [] tool_name = "run_shell_command" ->
            Called(ToolCallMade(t, im, ins, i, tool_name,
                                [command |-> Get(args, "command", None)],
                                TRUE, reply, value),
                   step_result, frame, loaded, step, TRUE)
      [] OTHER ->
            CalledGuarded(ToolCallMade(t, im, ins, i, tool_name, args, FALSE, reply,
                                       value),
                          step_result, frame, loaded, step)

\* Lines 195-257: one step of the plan.
ExecuteStep(t, im, ins, step, i, frame, loaded, reply, value) ==
    IF DOMAIN Get(step, "tool_call", EmptyDict) = {}
    THEN StepDone([step |-> Get(step, "description", "Unknown Step"),
                   status |-> "no_tool_call"],
                  frame, loaded, <<>>, step)
    ELSE ExecuteToolCall(t, im, ins, step,
                         [step |-> Get(step, "description", "Unknown Step"),
                          status |-> "executed"],
                         step.tool_call.tool_name,
                         Get(step.tool_call, "args", EmptyDict),
                         i, frame, loaded, reply, value)

\* Whether the step's execute_tool call stops at the confirmation prompt.
StepGated(t, step) ==
    LET tool_call == Get(step, "tool_call", EmptyDict)
    IN  /\ DOMAIN tool_call # {}
        /\ tool_call.tool_name \in {"send_alert_notification", "run_shell_command"}
        /\ Gated(t, tool_call.tool_name, TRUE)

-----------------------------------------------------------------------------
(* The Agent: a deployment registers its capability tools, then directives are  *)
(* processed one after the other.                                               *)

Thought(step_name, d) == [step_name |-> step_name, directive |-> d]

\* ThoughtProcessManager.log_thought
LogThought(step_name) == thought_log' = Append(thought_log, Thought(step_name, directive))

\* stages with the stage entered, if it is not the one already running
Entered(stage) ==
    IF stages # <<>> /\ stages[Len(stages)] = stage THEN stages ELSE Append(stages, stage)

\* An exception leaves process_directive.
Raise(error) ==
    /\ pc' = "idle"
    /\ outcome' = [status |-> "raised", error |-> error]

InitAgent ==
    /\ tools = CoreTools.tools
    /\ impls = CoreTools.impls
    /\ insts = CoreTools.insts
    /\ lastOk = [n \in {"run_shell_command", "agent_llm_inference"} |->
                    LET reg == IF n = "run_shell_command"
                               THEN CoreToolSpecs[1] ELSE CoreToolSpecs[2]
                    IN  Registered(reg.definition, reg.implementation,
                                   reg.factory_type, reg.config)]
    /\ last = NoCall
    /\ AgentIdle
    /\ StoreIdle
    /\ FactoryIdle
    /\ AgentConstructed

\* The deployment registers its next capability tool on the Agent's ToolManager.
RegisterCapability ==
    /\ pc = "idle"
    /\ directive = 0
    /\ \E k \in 1..Len(CapabilityToolSpecs) :
        LET reg == CapabilityToolSpecs[k]
            r == RegisterSpec(tools, impls, insts, reg)
        IN  /\ reg.definition.name \notin DOMAIN tools
            /\ k > 1 => CapabilityToolSpecs[k - 1].definition.name \in DOMAIN tools
            /\ tools' = r.tools
            /\ impls' = r.impls
            /\ insts' = r.insts
            /\ lastOk' = IF r.error = None
                         THEN Put(lastOk, reg.definition.name,
                                  Registered(reg.definition, reg.implementation,
                                             reg.factory_type, reg.config))
                         ELSE lastOk
    /\ UNCHANGED <<last, otherVars, agentVars>>

\* process_directive, lines 85-86: the log is cleared and the directive logged.
ProcessDirective ==
    /\ pc = "idle"
    /\ directive < MaxDirectives
    /\ directive' = directive + 1
    /\ thought_log' = <<Thought("Directive Received", directive')>>
    /\ pc' = "refactor"
    /\ refactored_data' = PyNone
    /\ plan' = NoPlan
    /\ pos' = 0
    /\ results' = <<>>
    /\ current_frame' = PyNone
    /\ loaded_models' = EmptyDict
    /\ final_insight' = PyNone
    /\ calls' = <<>>
    /\ stages' = <<>>
    /\ outcome' = NoOutcome
    /\ session_writes' = <<>>
    /\ UNCHANGED <<tmVars, last, otherVars, session_data>>

\* Lines 89-90 and _refactor_directive.
RefactorDirective ==
    /\ pc = "refactor"
    /\ \E text \in LLMTexts :
        refactored_data' = IF ParseFails(text) THEN RefactorFallback(directive, text)
                           ELSE JsonLoads(text)
    /\ LogThought("Refactor Step")
    /\ stages' = Entered("Refactor")
    /\ pc' = "break_down"
    /\ UNCHANGED <<tmVars, last, otherVars, directive, plan, pos, results, current_frame,
                   loaded_models, final_insight, session_data, session_writes, calls, outcome>>

\* Lines 93-94 and _break_down_task: refactored_data.get raises on anything but a
\* dict; otherwise the LLM's answer is the plan.
BreakDownTask ==
    /\ pc = "break_down"
    /\ stages' = Entered("Break Down")
    /\ IF refactored_data.type # "dict"
       THEN /\ Raise("AttributeError")
            /\ UNCHANGED <<thought_log, plan, pos>>
       ELSE /\ \E response \in PlanResponses : plan' = RefinedPlan(response)
            /\ LogThought("Break Down Step")
            /\ pc' = "execute"
            /\ pos' = 1
            /\ UNCHANGED outcome
    /\ UNCHANGED <<tmVars, last, otherVars, directive, refactored_data, results, current_frame,
                   loaded_models, final_insight, session_data, session_writes, calls>>

\* What a step of the loop leaves: the exception it raised leaves process_directive,
\* or its result is appended and the loop moves on.
StepTaken(r) ==
    /\ calls' = calls \o r.calls
    /\ plan' = [plan EXCEPT !.steps[pos] = r.step]
    /\ IF r.raised # None
       THEN /\ Raise(r.raised)
            /\ UNCHANGED <<pos, results, current_frame, loaded_models>>
       ELSE /\ results' = Append(results, r.step_result)
            /\ current_frame' = r.current_frame
            /\ loaded_models' = r.loaded_models
            /\ pos' = pos + 1
            /\ UNCHANGED <<pc, outcome>>

\* _execute_plan, lines 194-259: the loop takes the next step of the plan.  A plan
\* that is a str yields characters, and step.get raises.
ExecutePlanStep ==
    /\ pc = "execute"
    /\ stages' = Entered("Execute")
    /\ IF plan.type # "list"
       THEN /\ Raise("AttributeError")
            /\ UNCHANGED <<plan, pos, results, current_frame, loaded_models, calls>>
       ELSE /\ pos <= Len(plan.steps)
            /\ \E reply \in (IF StepGated(tools, plan.steps[pos]) THEN Replies ELSE {None}),
                  value \in StepReturns(plan.steps[pos], pos) :
                StepTaken(ExecuteStep(tools, impls, insts, plan.steps[pos], pos,
                                      current_frame, loaded_models, reply, value))
    /\ UNCHANGED <<tmVars, last, otherVars, directive, thought_log, refactored_data,
                   final_insight, session_data, session_writes>>

\* _execute_plan returns its results, and lines 97-98 log them.
ExecutePlanReturn ==
    /\ pc = "execute"
    /\ plan.type = "list"
    /\ pos > Len(plan.steps)
    /\ stages' = Entered("Execute")
    /\ LogThought("Execution Step")
    /\ pc' = "compile"
    /\ UNCHANGED <<tmVars, last, otherVars, directive, refactored_data, plan, pos, results,
                   current_frame, loaded_models, final_insight, session_data, session_writes, calls,
                   outcome>>

\* Lines 101-102 and _compile_results.
CompileResults ==
    /\ pc = "compile"
    /\ \E text \in LLMTexts :
        final_insight' = IF ParseFails(text) THEN CompileFallback(results, text)
                         ELSE JsonLoads(text)
    /\ LogThought("Compile Step")
    /\ stages' = Entered("Compile")
    /\ pc' = "store"
    /\ UNCHANGED <<tmVars, last, otherVars, directive, refactored_data, plan, pos, results,
                   current_frame, loaded_models, session_data, session_writes, calls, outcome>>

\* Lines 105-107: WorkingMemoryManager.update_session_data, then the return.  The
\* module never imports json, so json.dumps of a dict or list raises NameError; a str
\* is stored as it is.
StoreInsight ==
    /\ pc = "store"
    /\ IF final_insight.type \in {"dict", "list"}
       THEN /\ Raise("NameError")
            /\ UNCHANGED session_data
       ELSE /\ session_data' = Put(session_data, "last_insight", final_insight)
            /\ outcome' = [status |-> "returned", insight |-> final_insight,
                           thought_log |-> thought_log]
            /\ pc' = "idle"
    /\ session_writes' = Append(session_writes,
            [key |-> "last_insight", value |-> final_insight,
             raised |-> IF final_insight.type \in {"dict", "list"} THEN "NameError" ELSE None,
             after |-> stages[Len(stages)]])
    /\ UNCHANGED <<tmVars, last, otherVars, directive, thought_log, refactored_data, plan, pos,
                   results, current_frame, loaded_models, final_insight, calls, stages>>

NextAgent ==
    \/ RegisterCapability
    \/ ProcessDirective
    \/ RefactorDirective
    \/ BreakDownTask
    \/ ExecutePlanStep
    \/ ExecutePlanReturn
    \/ CompileResults
    \/ StoreInsight

SpecAgent == InitAgent /\ [][NextAgent]_vars

-----------------------------------------------------------------------------
(* Vocabulary of the Agent properties. *)

\* A process_directive call has ended.
Ended == pc = "idle" /\ directive > 0

StepNames ==
    <<"Directive Received", "Refactor Step", "Break Down Step", "Execution Step",
      "Compile Step">>

IsPredictStep(step) ==
    LET tool_call == Get(step, "tool_call", EmptyDict)
    IN  /\ DOMAIN tool_call # {}
        /\ tool_call.tool_name = "object_detection_model"
        /\ Get(tool_call.args, "operation", None) = "predict"

Invoked(c, method) ==
    \E j \in 1..Len(c.events) : c.events[j].e = "invoke" /\ c.events[j].method = method

\* The indices in calls of the camera reads made before step k, and of those that
\* returned a frame.
ReadsBefore(k) ==
    {j \in 1..Len(calls) : /\ calls[j].pos < k
                           /\ calls[j].name = "main_camera_sensor"
                           /\ Invoked(calls[j], "read_data")}
FrameReads(k) == {j \in ReadsBefore(k) : calls[j].value # PyNone}

\* The model loads made before step k that returned True.
ModelLoads(k) ==
    {j \in 1..Len(calls) : /\ calls[j].pos < k
                           /\ calls[j].name = "object_detection_model"
                           /\ Invoked(calls[j], "load_model")
                           /\ calls[j].value = PyBool(TRUE)}

\* The frame the last successful read before step k returned.
CapturedFrame(k) ==
    calls[CHOOSE j \in FrameReads(k) : \A h \in FrameReads(k) : h <= j].value

\* The execute_tool calls step k made.
CallsOf(k) == {j \in 1..Len(calls) : calls[j].pos = k}

-----------------------------------------------------------------------------
(* Properties of the Agent. *)

\* C2: every process_directive call ends by returning, never by raising, and what it
\* returns has an 'insight' that is an object and a non-empty 'thought_log',
\* whatever the LLM answered (text that does not parse as JSON included).
C2_AlwaysReturnsInsight ==
    Ended => /\ outcome.status = "returned"
             /\ outcome.insight.type = "dict"
             /\ outcome.thought_log # <<>>

\* C3: every process_directive call runs Refactor, Break Down, Execute and Compile
\* once each in that order and returns a thought_log of exactly the five entries
\* 'Directive Received', 'Refactor Step', 'Break Down Step', 'Execution Step',
\* 'Compile Step', all logged by this directive.
C3_FourStagesFiveThoughts ==
    Ended => /\ stages = <<"Refactor", "Break Down", "Execute", "Compile">>
             /\ outcome.status = "returned"
             /\ outcome.thought_log =
                    [n \in 1..Len(StepNames) |-> Thought(StepNames[n], directive)]

\* C9: once the Execute stage is past a predict step that comes after a camera read
\* that returned a frame and a model load that returned True, a predict call for that
\* step has been handed to the ToolManager, and its 'data' is the captured frame, not
\* the placeholder of the plan.
C9_PredictCarriesFrame ==
    \A k \in 1..Len(plan.steps) :
        (/\ IsPredictStep(plan.steps[k])
         /\ pc # "execute" \/ pos > k
         /\ FrameReads(k) # {}
         /\ ModelLoads(k) # {})
        => \E j \in CallsOf(k) :
            /\ calls[j].name = "object_detection_model"
            /\ "data" \in DOMAIN calls[j].args
            /\ calls[j].args["data"] = CapturedFrame(k)
            /\ calls[j].args["data"] # Placeholder

\* C10: a predict step executed after camera reads none of which returned a frame
\* gets status 'skipped' with the reason as its error, and no execute_tool call (so
\* no predict) is made for it.
C10_PredictSkippedWithoutFrame ==
    \A k \in 1..Len(results) :
        (/\ IsPredictStep(plan.steps[k])
         /\ ReadsBefore(k) # {}
         /\ FrameReads(k) = {})
        => /\ results[k]["status"] = "skipped"
           /\ "error" \in DOMAIN results[k]
           /\ results[k]["error"] = Text("No frame or model not loaded for prediction.")
           /\ CallsOf(k) = {}

\* The model is loaded, the camera read returns None, and the predict step that
\* follows is skipped.
C10_Witness ==
    \E k \in 1..Len(results) :
        /\ IsPredictStep(plan.steps[k])
        /\ ReadsBefore(k) # {}
        /\ FrameReads(k) = {}
        /\ ModelLoads(k) # {}
        /\ results[k]["status"] = "skipped"

\* C11: the Execute stage invokes no tool whose definition declares
\* side_effects=true (whatever its backend) unless a confirmation was asked for
\* that call and answered affirmatively: every such call that invoked something
\* began with the confirmation prompt.
C11_GateUniformInExecute ==
    \A j \in 1..Len(calls) :
        (/\ calls[j].name \in DOMAIN tools
         /\ HasSideEffects(tools[calls[j].name])
         /\ \E e \in 1..Len(calls[j].events) : calls[j].events[e].e = "invoke")
        => calls[j].events[1].e = "confirm"

\* C12: for every plan (a list of steps), once the Execute stage is over it has not
\* raised and holds one step result per plan step, in plan order; a step whose
\* execute_tool call raised has status 'error' with the error text.
C12_ExecuteNeverRaises ==
    (/\ plan.type = "list"
     /\ stages # <<>>
     /\ stages[Len(stages)] \in {"Execute", "Compile"}
     /\ pc # "execute")
    => /\ Len(results) = Len(plan.steps)
       /\ \A k \in 1..Len(results) : results[k]["step"] = plan.steps[k].description
       /\ \A j \in 1..Len(calls) :
            calls[j].raised # None =>
                /\ calls[j].pos <= Len(results)
                /\ results[calls[j].pos]["status"] = "error"
                /\ results[calls[j].pos]["error"] = Text(calls[j].raised)

-----------------------------------------------------------------------------
(* The statements of LongTermMemoryManager.  _execute_query runs each one  *)
(* on a connection of its own and commits it.                              *)

ProjectRoots == {"/p", "/q"}
Roles == {"user", "assistant"}
Files == {"a.py"}

\* What parse_python_file reads of a file: its checksum and its modification time.  New
\* content comes with a new time; a file can also be touched without being changed.
FileStates == {[file_checksum |-> "c1", last_modified |-> "t1"], [file_checksum |-> "c1", last_modified |-> "t2"], [file_checksum |-> "c2", last_modified |-> "t2"]}
EntityLists == {<<>>, <<"f">>}

\* The texts handed to set_session_data.
StoredTexts == {"hello", "5"}

\* commands.py line 17: the CLI works in one session, of a fixed id.
CliSession == "s1"

\* Optional[int]: None is the empty set, n is {n}.
Limits == {{}} \cup {{n} : n \in 0..MaxClock}
IsInt(limit) == limit # {}
IntOf(limit) == CHOOSE n \in limit : TRUE

\* The rows of a table that a WHERE session_id = ? selects.
Rows(table, S) == {r \in table : r.session_id = S}

\* DELETE FROM table WHERE session_id = ?
DeleteFrom(table, S) == table \ Rows(table, S)

\* create_session: sessions.session_id is the PRIMARY KEY.
CreateSession(table, S, project_path, t) ==
    IF Rows(table, S) # {}
    THEN [table |-> table, raised |-> "IntegrityError"]
    ELSE [table |-> table \cup {[session_id |-> S, start_time |-> t,
                                 current_project_path |-> project_path]},
          raised |-> None]

\* get_session: the first row selected as a dict, or None.
GetSession(table, S) ==
    IF Rows(table, S) = {} THEN PyNone ELSE CHOOSE r \in Rows(table, S) : TRUE

\* add_message: message_id is AUTOINCREMENT, the timestamp is datetime.now().
AddMessage(table, seq, S, role, content, t) ==
    table \cup {[message_id |-> seq + 1, session_id |-> S, timestamp |-> t,
                 role |-> role, content |-> content]}

\* ORDER BY timestamp ASC
RECURSIVE OrderByTimestamp(_)
OrderByTimestamp(rows) ==
    IF rows = {} THEN <<>>
    ELSE LET first == CHOOSE r \in rows : \A q \in rows : r.timestamp <= q.timestamp
         IN  <<first>> \o OrderByTimestamp(rows \ {first})

Message(r) == [timestamp |-> r.timestamp, role |-> r.role, content |-> r.content]

\* LIMIT n on a result
Limit(rows, n) == SubSeq(rows, 1, IF n < Len(rows) THEN n ELSE Len(rows))

\* get_messages: "if limit:" adds LIMIT ? to the query, so not for None and not for 0.
GetMessages(table, S, limit) ==
    LET rows == OrderByTimestamp(Rows(table, S))
        selected == IF IsInt(limit) /\ IntOf(limit) # 0
                    THEN Limit(rows, IntOf(limit)) ELSE rows
    IN  [i \in 1..Len(selected) |-> Message(selected[i])]

\* The path of a code entity: a file, or file::name for an entity inside it.
FilePath(file) == [file |-> file, name |-> ""]
SubEntityPath(file, name) == [file |-> file, name |-> name]

\* add_code_entity: entity_id is AUTOINCREMENT, code_entities.path is UNIQUE; the
\* statement runs inside "with sqlite3.connect(...)", which commits it, or rolls it
\* back when it raises.
AddCodeEntity(table, seq, S, path, checksum, last_modified) ==
    IF \E r \in table : r.path = path
    THEN [table |-> table, seq |-> seq, raised |-> "IntegrityError", lastrowid |-> 0]
    ELSE [table |-> table \cup {[entity_id |-> seq + 1, session_id |-> S, path |-> path,
                                 checksum |-> checksum,
                                 last_modified |-> last_modified]},
          seq |-> seq + 1, raised |-> None, lastrowid |-> seq + 1]

\* get_code_entity: the first row with that path as a dict, or None.
GetCodeEntity(table, path) ==
    IF \E r \in table : r.path = path
    THEN CHOOSE r \in table : r.path = path
    ELSE PyNone

\* update_code_entity_checksum: UPDATE ... WHERE path = ?
UpdateCodeEntityChecksum(table, path, new_checksum, new_last_modified) ==
    {IF r.path = path
     THEN [r EXCEPT !.checksum = new_checksum, !.last_modified = new_last_modified]
     ELSE r : r \in table}

\* add_relationship
AddRelationship(table, seq, S, source_entity_id, target_entity_id) ==
    table \cup {[relationship_id |-> seq + 1, session_id |-> S,
                 source_entity_id |-> source_entity_id,
                 target_entity_id |-> target_entity_id]}

\* The plain INSERT that set_session_data is not: it would add a row whatever the
\* table holds.
SetSessionDataInserts(table, S, key, value) ==
    table \cup {[session_id |-> S, key |-> key, value |-> value]}

\* set_session_data: INSERT OR REPLACE, (session_id, key) is the PRIMARY KEY, so the
\* row with that key is deleted before the new one is inserted.
SetSessionData(table, S, key, value) ==
    {r \in table : ~(r.session_id = S /\ r.key = key)}
        \cup {[session_id |-> S, key |-> key, value |-> value]}

\* A str value.
Str(text) == [kind |-> "str", text |-> text]

\* get_session_data: the value of the first row selected, or None.
GetSessionData(table, S, key) ==
    LET rows == {r \in table : r.session_id = S /\ r.key = key}
    IN  IF rows = {} THEN PyNone ELSE Str((CHOOSE r \in rows : TRUE).value)

\* clear_session_data issues five DELETE statements, in this order.
ClearStatements == <<"messages", "code_entities", "relationships", "session_data", "sessions">>

-----------------------------------------------------------------------------
(* WorkingMemoryManager (src/core/memory/working_memory_manager.py), the   *)
(* facade of one session over the store, and the scan of the init command. *)

\* The names working_memory_manager.py binds at module level (lines 1-6); json is not
\* one of them.
WorkingMemoryNames == {"Any", "Dict", "List", "Optional", "logging", "os", "LongTermMemoryManager", "logger"}

\* The values handed to update_session_data: a dict, a list, a text and an integer
\* written as a string, each with its JSON text.
SessionValues == {[kind |-> "dict", text |-> "{}"], [kind |-> "list", text |-> "[]"], Str("hello"), Str("5")}

\* json.dumps of a dict or a list
JsonDumps(value) == Str(value.text)

\* json.loads raises JSONDecodeError for this text
JsonDecodeError(text) == text \notin {"{}", "[]", "5"}

\* json.loads of a text it accepts
JsonLoadsText(text) ==
    CASE text = "{}" -> [kind |-> "dict", text |-> "{}"]
      [] text = "[]" -> [kind |-> "list", text |-> "[]"]
      [] OTHER -> [kind |-> "int", text |-> text]

\* The session row is written anew whatever the table holds: what __init__ does not do.
EnsureSessionReplaces(table, S, project_root, t) ==
    [table |-> DeleteFrom(table, S) \cup {[session_id |-> S, start_time |-> t, current_project_path |-> project_root]},
     created |-> TRUE, raised |-> None]

\* __init__, lines 27-31: the session is created when get_session finds none.
EnsureSession(table, S, project_root, t) ==
    IF ~Truthy(GetSession(table, S))
    THEN LET created == CreateSession(table, S, project_root, t)
         IN  [table |-> created.table, created |-> created.raised = None,
              raised |-> created.raised]
    ELSE [table |-> table, created |-> FALSE, raised |-> None]

\* get_history
GetHistory(table, S, limit) == GetMessages(table, S, limit)

\* update_session_data: a dict or list goes through json.dumps, a name the module
\* does not bind; what is stored is str(value).
UpdateSessionData(table, S, key, value) ==
    IF value.kind \in {"dict", "list"} /\ "json" \notin WorkingMemoryNames
    THEN [table |-> table, raised |-> "NameError", stored |-> None]
    ELSE LET text == IF value.kind \in {"dict", "list"} THEN JsonDumps(value) ELSE value
         IN  [table |-> SetSessionData(table, S, key, text.text), raised |-> None,
              stored |-> text.text]

\* get_session_data of the facade: the default when the store has no value, else
\* json.loads of the text inside a try whose except clause names json too.
ReadSessionData(table, S, key, default) ==
    LET value == GetSessionData(table, S, key)
    IN  IF value = PyNone THEN [raised |-> None, result |-> default]
        ELSE IF "json" \notin WorkingMemoryNames
             THEN [raised |-> "NameError", result |-> PyNone]
        ELSE IF JsonDecodeError(value.text) THEN [raised |-> None, result |-> value]
        ELSE [raised |-> None, result |-> JsonLoadsText(value.text)]

\* StateManager.get_history (packages/core/state_manager.py): history[-limit:]
StateManagerGetHistory(history, limit) ==
    IF ~IsInt(limit) THEN history
    ELSE IF IntOf(limit) = 0 \/ IntOf(limit) >= Len(history) THEN history
    ELSE SubSeq(history, Len(history) - IntOf(limit) + 1, Len(history))

\* A scan that takes every file it finds again for changed.
ChangedAlways(existing, file_checksum) == TRUE

\* commands.py line 98: the checksum stored differs from the one just computed.
Changed(existing, file_checksum) == existing.checksum # file_checksum

\* commands.py lines 121-131: the entities of the file are added one by one; the first
\* add that raises ends the loop (the except of line 143 takes it).
RECURSIVE AddEntities(_, _, _, _, _, _)
AddEntities(table, seq, S, file, names, made) ==
    IF names = <<>> THEN [table |-> table, seq |-> seq, calls |-> made, raised |-> None]
    ELSE LET a == AddCodeEntity(table, seq, S, SubEntityPath(file, Head(names)), "", "")
         IN  IF a.raised # None
             THEN [table |-> table, seq |-> seq,
                   calls |-> Append(made, "add_code_entity"), raised |-> a.raised]
             ELSE AddEntities(a.table, a.seq, S, file, Tail(names),
                              Append(made, "add_code_entity"))

\* commands.py lines 88-143, the body of the loop for one file that parsed.
ScanFile(table, seq, S, file, file_checksum, last_modified, entities) ==
    LET existing == GetCodeEntity(table, FilePath(file))
    IN  IF Truthy(existing)
        THEN IF Changed(existing, file_checksum)
             THEN AddEntities(UpdateCodeEntityChecksum(table, FilePath(file), file_checksum, last_modified),
                              seq, S, file, entities,
                              <<"get_code_entity", "update_code_entity_checksum">>)
             ELSE [table |-> table, seq |-> seq, calls |-> <<"get_code_entity">>,
                   raised |-> None]
        ELSE LET a == AddCodeEntity(table, seq, S, FilePath(file), file_checksum, last_modified)
             IN  AddEntities(a.table, a.seq, S, file, entities,
                             <<"get_code_entity", "add_code_entity">>)

-----------------------------------------------------------------------------
(* The calls made on the store.  Each call reads the clock; the sessions   *)
(* share one database file, and each statement is a transaction of its own.*)

\* A clear_session_data that leaves the session_data rows where they are.
DeletedKeepsSessionData(table, name, S, i) ==
    IF ClearStatements[i] = name /\ name # "session_data" THEN DeleteFrom(table, S) ELSE table

\* The table called name after the i-th statement of clear_session_data(S).
Deleted(table, name, S, i) ==
    IF ClearStatements[i] = name THEN DeleteFrom(table, S) ELSE table

TableNamed(name) ==
    CASE name = "messages" -> messages
      [] name = "code_entities" -> code_entities
      [] name = "relationships" -> relationships
      [] name = "session_data" -> session_data_table
      [] OTHER -> sessions

\* clear, when a call writes for session S: the write is noted on the
\* clear_session_data call of S that is running or was the last to run.
Written(S) ==
    IF clear.session_id = S /\ clear.status # "idle"
    THEN [clear EXCEPT !.written = TRUE] ELSE clear

\* WorkingMemoryManager(session_id=S, project_root=...)
WMInit ==
    /\ now < MaxClock
    /\ \E S \in SessionIds, project_root \in ProjectRoots :
        LET ensured == EnsureSession(sessions, S, project_root, now)
        IN  /\ sessions' = ensured.table
            /\ storeCall' = [op |-> "init", session_id |-> S, project_root |-> project_root,
                             before |-> GetSession(sessions, S),
                             created |-> ensured.created, raised |-> ensured.raised]
            /\ clear' = IF ensured.created THEN Written(S) ELSE clear
    /\ now' = now + 1
    /\ UNCHANGED <<messages, code_entities, relationships, session_data_table,
                   sqlite_sequence, added, lastSet, conversation_history>>
    /\ UNCHANGED <<tmVars, last, agentVars, factoryVars, capVars, raceVars>>

\* WorkingMemoryManager.add_message
WMAddMessage ==
    /\ now < MaxClock
    /\ \E S \in SessionIds, role \in Roles :
        /\ messages' = AddMessage(messages, sqlite_sequence["messages"], S, role, "text", now)
        /\ added' = [added EXCEPT ![S] = Append(@, [timestamp |-> now, role |-> role, content |-> "text"])]
        /\ storeCall' = [op |-> "add_message", session_id |-> S, role |-> role]
        /\ clear' = Written(S)
    /\ sqlite_sequence' = [sqlite_sequence EXCEPT !["messages"] = @ + 1]
    /\ now' = now + 1
    /\ UNCHANGED <<sessions, code_entities, relationships, session_data_table, lastSet,
                   conversation_history>>
    /\ UNCHANGED <<tmVars, last, agentVars, factoryVars, capVars, raceVars>>

\* StateManager.add_message
StateManagerAddMessage ==
    /\ now < MaxClock
    /\ \E role \in Roles :
        /\ conversation_history' = Append(conversation_history, [role |-> role, content |-> "text"])
        /\ storeCall' = [op |-> "StateManager.add_message", role |-> role]
    /\ now' = now + 1
    /\ UNCHANGED <<sessions, messages, code_entities, relationships, session_data_table,
                   sqlite_sequence, clear, added, lastSet>>
    /\ UNCHANGED <<tmVars, last, agentVars, factoryVars, capVars, raceVars>>

\* WorkingMemoryManager.update_session_data
WMUpdateSessionData ==
    /\ now < MaxClock
    /\ \E S \in SessionIds, key \in Keys, value \in SessionValues :
        LET updated == UpdateSessionData(session_data_table, S, key, value)
        IN  /\ session_data_table' = updated.table
            /\ lastSet' = IF updated.raised = None
                          THEN [lastSet EXCEPT ![<<S, key>>] = updated.stored]
                          ELSE lastSet
            /\ storeCall' = [op |-> "update_session_data", session_id |-> S, key |-> key,
                             value |-> value, raised |-> updated.raised,
                             before |-> GetSessionData(session_data_table, S, key)]
            /\ clear' = IF updated.raised = None THEN Written(S) ELSE clear
    /\ now' = now + 1
    /\ UNCHANGED <<sessions, messages, code_entities, relationships, sqlite_sequence,
                   added, conversation_history>>
    /\ UNCHANGED <<tmVars, last, agentVars, factoryVars, capVars, raceVars>>

\* LongTermMemoryManager.set_session_data, called with a text
SetSessionDataCall ==
    /\ now < MaxClock
    /\ \E S \in SessionIds, key \in Keys, value \in StoredTexts :
        /\ session_data_table' = SetSessionData(session_data_table, S, key, value)
        /\ lastSet' = [lastSet EXCEPT ![<<S, key>>] = value]
        /\ storeCall' = [op |-> "set_session_data", session_id |-> S, key |-> key,
                         value |-> Str(value),
                         before |-> GetSessionData(session_data_table, S, key)]
        /\ clear' = Written(S)
    /\ now' = now + 1
    /\ UNCHANGED <<sessions, messages, code_entities, relationships, sqlite_sequence,
                   added, conversation_history>>
    /\ UNCHANGED <<tmVars, last, agentVars, factoryVars, capVars, raceVars>>

\* The init command meets one Python file of the project (commands.py lines 85-143);
\* its state_manager is the one of the CLI's session.
InitCommandFile ==
    /\ now < MaxClock
    /\ \E S \in {CliSession}, file \in Files, parsed_data \in FileStates, entities \in EntityLists :
        LET scanned == ScanFile(code_entities, sqlite_sequence["code_entities"], S, file, parsed_data.file_checksum, parsed_data.last_modified, entities)
        IN  /\ code_entities' = scanned.table
            /\ sqlite_sequence' = [sqlite_sequence EXCEPT !["code_entities"] = scanned.seq]
            /\ storeCall' = [op |-> "scan", session_id |-> S, file |-> file,
                             checksum |-> parsed_data.file_checksum,
                             last_modified |-> parsed_data.last_modified,
                             before |-> code_entities, calls |-> scanned.calls,
                             raised |-> scanned.raised]
            /\ clear' = IF "add_code_entity" \in {scanned.calls[i] : i \in 1..Len(scanned.calls)}
                        THEN Written(S) ELSE clear
    /\ now' = now + 1
    /\ UNCHANGED <<sessions, messages, relationships, session_data_table, added, lastSet,
                   conversation_history>>
    /\ UNCHANGED <<tmVars, last, agentVars, factoryVars, capVars, raceVars>>

\* WorkingMemoryManager.add_relationship between two entities of the store
WMAddRelationship ==
    /\ now < MaxClock
    /\ \E S \in SessionIds, source \in code_entities, target \in code_entities :
        /\ relationships' = AddRelationship(relationships, sqlite_sequence["relationships"], S, source.entity_id, target.entity_id)
        /\ storeCall' = [op |-> "add_relationship", session_id |-> S]
        /\ clear' = Written(S)
    /\ sqlite_sequence' = [sqlite_sequence EXCEPT !["relationships"] = @ + 1]
    /\ now' = now + 1
    /\ UNCHANGED <<sessions, messages, code_entities, session_data_table, added, lastSet,
                   conversation_history>>
    /\ UNCHANGED <<tmVars, last, agentVars, factoryVars, capVars, raceVars>>

\* The i-th DELETE of clear_session_data(S), committed by _execute_query.
RunStatement(S, i) ==
    /\ messages' = Deleted(messages, "messages", S, i)
    /\ code_entities' = Deleted(code_entities, "code_entities", S, i)
    /\ relationships' = Deleted(relationships, "relationships", S, i)
    /\ session_data_table' = Deleted(session_data_table, "session_data", S, i)
    /\ sessions' = Deleted(sessions, "sessions", S, i)
    /\ added' = IF ClearStatements[i] = "messages" THEN [added EXCEPT ![S] = <<>>] ELSE added
    /\ lastSet' = IF ClearStatements[i] = "session_data"
                  THEN [sk \in DOMAIN lastSet |-> IF sk[1] = S THEN None ELSE lastSet[sk]]
                  ELSE lastSet
    /\ storeCall' = [op |-> "clear_session_data", session_id |-> S, statement |-> i]
    /\ now' = IF i = 1 THEN now + 1 ELSE now
    /\ UNCHANGED <<sqlite_sequence, conversation_history>>
    /\ UNCHANGED <<tmVars, last, agentVars, factoryVars, capVars, raceVars>>

\* WorkingMemoryManager.clear_session: clear_session_data(S) is called and runs its
\* first statement.
WMClearSession ==
    /\ now < MaxClock
    /\ clear.status # "running"
    /\ \E S \in SessionIds :
        /\ RunStatement(S, 1)
        /\ clear' = [status |-> "running", session_id |-> S, done |-> 1,
                     removed |-> Rows(TableNamed(ClearStatements[1]), S) # {},
                     written |-> FALSE]

\* The call goes on to its next statement; after the fifth it returns.
ClearNextStatement ==
    /\ clear.status = "running"
    /\ RunStatement(clear.session_id, clear.done + 1)
    /\ clear' = [clear EXCEPT
                    !.status = IF clear.done + 1 = Len(ClearStatements) THEN "done" ELSE "running",
                    !.done = clear.done + 1,
                    !.removed = @ \/ Rows(TableNamed(ClearStatements[clear.done + 1]), clear.session_id) # {}]

\* The next statement raises (sqlite3.OperationalError, the database being locked by
\* another connection) or the process ends: the statements run so far are committed.
ClearFails ==
    /\ clear.status = "running"
    /\ clear' = [clear EXCEPT !.status = "failed"]
    /\ storeCall' = [op |-> "clear_session_data", session_id |-> clear.session_id, statement |-> 0]
    /\ UNCHANGED <<sessions, messages, code_entities, relationships, session_data_table,
                   sqlite_sequence, now, added, lastSet, conversation_history>>
    /\ UNCHANGED <<tmVars, last, agentVars, factoryVars, capVars, raceVars>>

NextStore ==
    \/ WMInit
    \/ WMAddMessage
    \/ SetSessionDataCall
    \/ InitCommandFile
    \/ WMAddRelationship
    \/ WMClearSession
    \/ ClearNextStatement
    \/ ClearFails

SpecStore == Init /\ [][NextStore]_vars

(* Each table is written by its own calls and by clear_session_data only, so a  *)
(* claim about one table is checked where the calls on that table, those of the *)
(* facade included, and the clearing of sessions interleave.                    *)

NextSessions ==
    \/ WMInit
    \/ WMClearSession
    \/ ClearNextStatement
    \/ ClearFails

SpecSessions == Init /\ [][NextSessions]_vars

NextMessages ==
    \/ WMAddMessage
    \/ StateManagerAddMessage
    \/ WMClearSession
    \/ ClearNextStatement
    \/ ClearFails

SpecMessages == Init /\ [][NextMessages]_vars

NextCodeEntities ==
    \/ InitCommandFile
    \/ WMAddRelationship
    \/ WMClearSession
    \/ ClearNextStatement
    \/ ClearFails

SpecCodeEntities == Init /\ [][NextCodeEntities]_vars

NextSessionData ==
    \/ SetSessionDataCall
    \/ WMUpdateSessionData
    \/ WMClearSession
    \/ ClearNextStatement
    \/ ClearFails

SpecSessionData == Init /\ [][NextSessionData]_vars


-----------------------------------------------------------------------------
(* The vocabulary of the claims about the store. *)

\* The paths a scan can register.
Paths == {FilePath(file) : file \in Files} \cup {SubEntityPath(file, names[1]) : file \in Files, names \in EntityLists \ {<<>>}}

\* The tables that hold rows of session S.
TablesHolding(S) == {i \in 1..Len(ClearStatements) : Rows(TableNamed(ClearStatements[i]), S) # {}}

\* The n most recently added messages of a history, all of them without a limit or
\* when fewer than n exist, in insertion order.
MostRecent(history, limit) ==
    IF ~IsInt(limit) \/ IntOf(limit) >= Len(history) THEN history
    ELSE SubSeq(history, Len(history) - IntOf(limit) + 1, Len(history))

\* The rows of the store that session S does not own.
RowsOfOthers(S) == <<DeleteFrom(messages, S), DeleteFrom(code_entities, S), DeleteFrom(relationships, S), DeleteFrom(session_data_table, S), DeleteFrom(sessions, S)>>

\* clear_session_data(S) has returned and nothing was written for S since it was called.
Cleared(S) == clear.status = "done" /\ clear.session_id = S /\ ~clear.written

-----------------------------------------------------------------------------
(* Claims about the store. *)

\* C13: clear_session_data(S) is atomic: while the call is running among other
\* readers and writers, and after it failed part-way, the store is in no state in
\* which the call has deleted some of the rows S had and others of them remain.
C13_ClearIsAtomic ==
    (clear.status \in {"running", "failed"} /\ clear.removed /\ ~clear.written)
        => TablesHolding(clear.session_id) = {}

\* C14: once clear_session_data(S) has returned, and as long as nothing was written
\* for S since the call, get_messages(S) is empty, get_code_entity returns no entity
\* of S for any path, get_session_data(S, k) is None for every key and get_session(S)
\* is None; and no statement of the call changes a row of another session.
C14_ClearedSessionReadsEmpty ==
    [][/\ \A S \in SessionIds :
            Cleared(S)' =>
                /\ GetMessages(messages', S, {}) = <<>>
                /\ \A path \in Paths :
                      \/ GetCodeEntity(code_entities', path) = PyNone
                      \/ GetCodeEntity(code_entities', path).session_id # S
                /\ \A key \in Keys : GetSessionData(session_data_table', S, key) = PyNone
                /\ GetSession(sessions', S) = PyNone
       /\ \A S \in SessionIds :
            (storeCall'.op = "clear_session_data" /\ storeCall'.session_id = S)
                => RowsOfOthers(S)' = RowsOfOthers(S)
      ]_vars

\* A clear_session_data(S) has returned after deleting rows of S, nothing was written
\* for S since, and another session has rows.
C14_Witness ==
    /\ clear.status = "done" /\ clear.removed /\ ~clear.written
    /\ \E S \in SessionIds \ {clear.session_id} : TablesHolding(S) # {}

C16_SetSessionDataUpserts ==
    \A S \in SessionIds, key \in Keys :
        /\ GetSessionData(session_data_table, S, key) =
              IF lastSet[<<S, key>>] = None THEN PyNone ELSE Str(lastSet[<<S, key>>])
        /\ Cardinality({r \in session_data_table : r.session_id = S /\ r.key = key}) <= 1

\* A set has replaced another value of its key while another key holds a value.
C16_Witness ==
    /\ storeCall.op = "set_session_data"
    /\ storeCall.before # PyNone
    /\ storeCall.before # storeCall.value
    /\ Cardinality(session_data_table) >= 2

\* C17: update_session_data(k, v) followed by get_session_data(k) returns a value
\* equal to v, for v a dict, a list, a text or an integer written as a string, and
\* neither call raises.
C17_SessionDataRoundTrip ==
    storeCall.op = "update_session_data" =>
        /\ storeCall.raised = None
        /\ ReadSessionData(session_data_table, storeCall.session_id, storeCall.key, PyNone)
              = [raised |-> None, result |-> storeCall.value]

\* C18: get_history() returns every message added to the session in insertion order,
\* and get_history(limit=n) the n most recently added ones in insertion order, for the
\* WorkingMemoryManager and for the StateManager, n being 1 or more.
C18_HistoryTailLimited ==
    \A limit \in Limits \ {{0}} :
        /\ \A S \in SessionIds : GetHistory(messages, S, limit) = MostRecent(added[S], limit)
        /\ StateManagerGetHistory(conversation_history, limit)
              = MostRecent(conversation_history, limit)

\* C19: a construction of the WorkingMemoryManager for S creates the session row,
\* with the project root, exactly when S had none, leaves the row S had as it was,
\* does not raise, and leaves exactly one session row for S.
C19_ConstructionEnsuresOneSession ==
    storeCall.op = "init" =>
        /\ storeCall.raised = None
        /\ storeCall.created <=> storeCall.before = PyNone
        /\ Cardinality(Rows(sessions, storeCall.session_id)) = 1
        /\ storeCall.before # PyNone => GetSession(sessions, storeCall.session_id) = storeCall.before
        /\ storeCall.created =>
              GetSession(sessions, storeCall.session_id).current_project_path = storeCall.project_root

\* A construction for a session that had a row of another project root and start time.
C19_Witness ==
    /\ storeCall.op = "init"
    /\ storeCall.before # PyNone
    /\ storeCall.before.current_project_path # storeCall.project_root
    /\ storeCall.before.start_time < now - 1

-----------------------------------------------------------------------------
(* register_sensor / register_model / register_provider and create_sensor  *)
(* / create_model / create_provider: the three factories have one layout.  *)

\* The names a factory is called with: the key of its built-in class, and another.
RegistryKeys(ftype) == DOMAIN BuiltIn(ftype) \cup {"mock"}
InstanceIds == {"i1", "i2"}
FactoryConfigs == {"c1", "empty"}

\* issubclass(cls, the interface of the factory)
IsSubclass(cls, ftype) == cls.interface = ftype

\* A register that stores whatever class it is handed.
RegisterUnchecked(registry, ftype, name, cls) ==
    [registry |-> Put(registry, name, cls), raised |-> None]

\* register_sensor and its like, lines 15-21.
RegisterClass(registry, ftype, name, cls) ==
    IF ~IsSubclass(cls, ftype)
    THEN [registry |-> registry, raised |-> "ValueError"]
    ELSE [registry |-> Put(registry, name, cls), raised |-> None]

\* cls(id, config) raises: TypeError for a class with abstract methods, ValueError
\* from the __init__ of VideoSensor and LlamaCppProvider without their config key.
Instantiate(cls, id, config) ==
    IF cls.abstract
    THEN [raised |-> "TypeError", message |-> "abstract class", key |-> cls.cls, constructed |-> FALSE, instance |-> PyNone]
    ELSE IF cls.requires # None /\ config = "empty"
    THEN [raised |-> "ValueError", message |-> "must be provided", key |-> cls.requires, constructed |-> FALSE, instance |-> PyNone]
    ELSE [raised |-> None, message |-> None, key |-> None, constructed |-> TRUE,
          instance |-> [cls |-> cls.cls, id |-> id, config |-> config]]

\* create_sensor and its like, lines 24-39.
CreateInstance(registry, name, id, config) ==
    IF name \notin DOMAIN registry
    THEN [raised |-> "ValueError", message |-> "not registered", key |-> name, constructed |-> FALSE, instance |-> PyNone]
    ELSE Instantiate(registry[name], id, config)

\* A caller registers a class with a factory.
FactoryRegister ==
    /\ \E ftype \in Factories, cls \in Classes :
       \E name \in RegistryKeys(ftype) :
        LET registered == RegisterClass(registries[ftype], ftype, name, cls)
        IN  /\ registries' = [registries EXCEPT ![ftype] = registered.registry]
            /\ factoryCall' = [op |-> "register", factory |-> ftype, name |-> name,
                               cls |-> cls, raised |-> registered.raised,
                               before |-> registries[ftype]]
    /\ UNCHANGED <<tmVars, last, agentVars, storeVars, capVars, raceVars>>

\* A caller asks a factory for an instance.
FactoryCreateCall ==
    /\ \E ftype \in Factories, id \in InstanceIds, config \in FactoryConfigs :
       \E name \in RegistryKeys(ftype) :
        LET created == CreateInstance(registries[ftype], name, id, config)
        IN  factoryCall' = [op |-> "create", factory |-> ftype, name |-> name, id |-> id,
                            config |-> config, raised |-> created.raised,
                            message |-> created.message, key |-> created.key,
                            constructed |-> created.constructed,
                            instance |-> created.instance]
    /\ UNCHANGED <<registries, tmVars, last, agentVars, storeVars, capVars, raceVars>>

NextFactory == FactoryRegister \/ FactoryCreateCall

SpecFactory == Init /\ [][NextFactory]_vars

-----------------------------------------------------------------------------
(* Claims about the factories. *)

\* The class registered under the name of the observed create call.
CreatedClass == registries[factoryCall.factory][factoryCall.name]

\* The observed create call named a key of the registry.
CreateOfRegistered ==
    factoryCall.op = "create" /\ factoryCall.name \in DOMAIN registries[factoryCall.factory]

\* The observed create call returned an instance of the registered class with the
\* id and config it was given.
ReturnedInstance ==
    /\ factoryCall.raised = None
    /\ factoryCall.instance = [cls |-> CreatedClass.cls, id |-> factoryCall.id, config |-> factoryCall.config]

\* create with a key that is not registered fails with a 'not registered' error
\* naming the key, and constructs nothing.
UnregisteredRejected ==
    (factoryCall.op = "create" /\ factoryCall.name \notin DOMAIN registries[factoryCall.factory])
        => /\ factoryCall.raised = "ValueError"
           /\ factoryCall.message = "not registered"
           /\ factoryCall.key = factoryCall.name
           /\ ~factoryCall.constructed

\* C20 as stated: create of an unregistered key fails naming the key; register of a
\* class that does not implement the interface (it does not inherit from it, or it
\* leaves its methods abstract) fails and leaves the registry unchanged; create of a
\* registered key returns an instance of the class carrying the id and the config.
C20_FactoryContractAsStated ==
    /\ UnregisteredRejected
    /\ (factoryCall.op = "register" /\ (~IsSubclass(factoryCall.cls, factoryCall.factory) \/ factoryCall.cls.abstract))
         => /\ factoryCall.raised # None
            /\ registries[factoryCall.factory] = factoryCall.before
    /\ CreateOfRegistered => ReturnedInstance

\* C20, amended: create of an unregistered key fails naming the key and constructs
\* nothing; register fails, leaving the registry unchanged, exactly when the class
\* is not a subclass of the factory's interface, and otherwise stores the class under
\* the name; create of a registered key returns an instance of the class carrying
\* the id and the config unless the class's constructor raises (an abstract class,
\* a VideoSensor or LlamaCppProvider without its config key), and then create
\* raises that error and returns nothing.
C20_FactoryContract ==
    /\ UnregisteredRejected
    /\ factoryCall.op = "register" =>
         IF IsSubclass(factoryCall.cls, factoryCall.factory)
         THEN /\ factoryCall.raised = None
              /\ registries[factoryCall.factory] = Put(factoryCall.before, factoryCall.name, factoryCall.cls)
         ELSE /\ factoryCall.raised = "ValueError"
              /\ registries[factoryCall.factory] = factoryCall.before
    /\ CreateOfRegistered =>
         IF CreatedClass.abstract \/ (CreatedClass.requires # None /\ factoryCall.config = "empty")
         THEN /\ factoryCall.raised = (IF CreatedClass.abstract THEN "TypeError" ELSE "ValueError")
              /\ ~factoryCall.constructed
              /\ factoryCall.instance = PyNone
         ELSE ReturnedInstance

\* A create of a class registered by a caller was refused by the class's constructor.
C20_Witness ==
    /\ CreateOfRegistered
    /\ factoryCall.name = "mock"
    /\ factoryCall.raised # None

-----------------------------------------------------------------------------
(* The insight process_directive persists (agent.py lines 104-107). *)

\* WorkingMemoryManager.get_session_data(key) on the Agent's session: None when the
\* key was never written, else json.loads of the stored text, a name the module does
\* not bind; with json bound, a text that is no JSON comes back as it was stored.
ReadInsight(data, key) ==
    IF key \notin DOMAIN data THEN [raised |-> None, result |-> PyNone]
    ELSE IF "json" \notin WorkingMemoryNames THEN [raised |-> "NameError", result |-> PyNone]
    ELSE [raised |-> None, result |-> data[key]]

\* The process_directive call has returned (it has not raised).
HasReturned == Ended /\ outcome.status = "returned"

\* C21: when process_directive returns, get_session_data('last_insight') reads back
\* the insight the call returned, and the call has written the key exactly once,
\* after the Compile stage.
C21_LastInsightPersisted ==
    HasReturned =>
        /\ ReadInsight(session_data, "last_insight") = [raised |-> None, result |-> outcome.insight]
        /\ Len(session_writes) = 1
        /\ session_writes[1].key = "last_insight"
        /\ session_writes[1].raised = None
        /\ session_writes[1].after = "Compile"

\* C22: none of the four stages raises, whatever the LLM answered: a process_directive
\* call that raised did so while persisting the insight, after Compile; a Refactor,
\* Break Down or Compile answer that is no JSON leaves the stage's flagged fallback
\* carrying the raw text, and the stages after it have run when the call ends.
C22_StagesDegradeGracefully ==
    /\ (Ended /\ outcome.status = "raised") =>
            /\ session_writes # <<>>
            /\ stages = <<"Refactor", "Break Down", "Execute", "Compile">>
    /\ (pc # "refactor" /\ directive > 0 /\ "interpretation_error" \in DOMAIN refactored_data) =>
            /\ refactored_data = RefactorFallback(directive, refactored_data.interpretation_error)
            /\ ParseFails(refactored_data.interpretation_error)
            /\ Ended => stages = <<"Refactor", "Break Down", "Execute", "Compile">>
    /\ (plan.steps # <<>> /\ "error" \in DOMAIN plan.steps[1]) =>
            /\ plan.steps = <<FallbackStep>>
            /\ ParseFails(FallbackStep.error)
            /\ Ended => stages = <<"Refactor", "Break Down", "Execute", "Compile">>
    /\ (final_insight # PyNone /\ "compilation_error" \in DOMAIN final_insight) =>
            /\ final_insight = CompileFallback(results, final_insight.compilation_error)
            /\ ParseFails(final_insight.compilation_error)

-----------------------------------------------------------------------------
(* The capability layer: VideoSensor (perception/sensors/video_sensor.py), *)
(* ObjectDetector (ml_models/vision/object_detector.py), LlamaCppProvider  *)
(* (llm_inference/providers/llama_cpp_provider.py).  Each operation meets a *)
(* backend (OpenCV, YOLO, llama.cpp) that does its work, reports that it    *)
(* could not, or raises.                                                   *)

\* What the backend does when an operation reaches it: "fails" is the failure it
\* reports without raising (a capture that is not opened, a read with ret False, a
\* model file that does not exist).
BackendOutcomes(operation) ==
    IF operation \in {"connect", "read_data", "load_llm"} THEN {"ok", "fails", "raises"}
    ELSE {"ok", "raises"}

Frame == [kind |-> "ndarray", id |-> 1]
EmptyList == [kind |-> "list", id |-> 0]
Detections == [kind |-> "list", id |-> 1]

\* The dict generate_response returns.
Generation(text, tokens) == [kind |-> "dict", generated_text |-> text, tokens_generated |-> tokens]

\* What an operation leaves: the object's attribute(s) afterwards, the value returned
\* or the exception that left the method, and whether the backend was reached.
CapDone(state, result, reached) == [state |-> state, raised |-> None, result |-> result, backend_reached |-> reached]
CapRaised(state, error) == [state |-> state, raised |-> error, result |-> PyNone, backend_reached |-> TRUE]

SensorState(c, connected) == [cap |-> c, is_connected |-> connected]

\* VideoSensor.connect, lines 19-33: nothing guards cv2.VideoCapture.
Connect(c, connected, backend) ==
    CASE backend = "raises" -> CapRaised(SensorState(c, connected), "cv2.error")
      [] backend = "fails" -> CapDone(SensorState(None, FALSE), PyBool(FALSE), TRUE)
      [] OTHER -> CapDone(SensorState("open", TRUE), PyBool(TRUE), TRUE)

\* read_data with the test of line 40 left out: the capture is read whatever it is.
ReadDataUnchecked(c, connected, backend) ==
    IF c = None THEN CapRaised(SensorState(c, connected), "AttributeError")
    ELSE CapDone(SensorState(c, connected), IF backend = "ok" THEN Frame ELSE PyNone, TRUE)

\* VideoSensor.read_data, lines 35-47: a capture that is held and opened is read.
ReadData(c, connected, backend) ==
    IF c = "open"
    THEN CASE backend = "raises" -> CapRaised(SensorState(c, connected), "cv2.error")
           [] backend = "fails" -> CapDone(SensorState(c, connected), PyNone, TRUE)
           [] OTHER -> CapDone(SensorState(c, connected), Frame, TRUE)
    ELSE CapDone(SensorState(c, connected), PyNone, FALSE)

\* VideoSensor.release, lines 49-56: the capture is released and kept.
Release(c, connected, backend) ==
    IF c # None
    THEN IF backend = "raises" THEN CapRaised(SensorState(c, connected), "cv2.error")
         ELSE CapDone(SensorState("released", FALSE), PyNone, TRUE)
    ELSE CapDone(SensorState(c, connected), PyNone, FALSE)

\* ObjectDetector.load_model, lines 16-29: YOLO(...) inside try/except Exception.
LoadYolo(m, backend) ==
    IF backend = "raises" THEN CapDone(None, PyBool(FALSE), TRUE)
    ELSE CapDone("YOLO", PyBool(TRUE), TRUE)

\* predict with the test of line 40 left out: the model is called whatever it is.
PredictUnchecked(m, backend) ==
    IF m = None THEN CapRaised(m, "TypeError")
    ELSE IF backend = "raises" THEN CapRaised(m, "backend error")
    ELSE CapDone(m, Detections, TRUE)

\* ObjectDetector.predict, lines 31-59: nothing guards self.model(frame).
Predict(m, backend) ==
    IF m = None THEN CapDone(m, EmptyList, FALSE)
    ELSE IF backend = "raises" THEN CapRaised(m, "backend error")
    ELSE CapDone(m, Detections, TRUE)

\* LlamaCppProvider.load_llm, lines 40-67: a loaded provider returns at once; the
\* model file is looked for (its absence is the failure reported), then Llama(...)
\* is built inside try/except Exception.
LoadLlm(llm, backend) ==
    IF llm # None THEN CapDone(llm, PyBool(TRUE), FALSE)
    ELSE CASE backend = "fails" -> CapDone(None, PyBool(FALSE), TRUE)
           [] backend = "raises" -> CapDone(None, PyBool(FALSE), TRUE)
           [] OTHER -> CapDone("Llama", PyBool(TRUE), TRUE)

\* LlamaCppProvider.generate_response, lines 69-113.
GenerateResponse(llm, backend) ==
    IF llm = None
    THEN CapDone(llm, Generation("Error: Local LLM model not loaded. Cannot perform inference.", 0), FALSE)
    ELSE IF backend = "raises"
    THEN CapDone(llm, Generation("Error during LLM inference", 0), TRUE)
    ELSE CapDone(llm, Generation("generated", 1), TRUE)

\* The record of a call on a capability object.
CapCallRecord(target, operation, backend, before, done) ==
    [op |-> operation, target |-> target, backend |-> backend, before |-> before,
     raised |-> done.raised, result |-> done.result, backend_reached |-> done.backend_reached]

\* A caller calls an operation of the VideoSensor.
SensorCall ==
    /\ \E operation \in {"connect", "read_data", "release"} :
       \E backend \in BackendOutcomes(operation) :
        LET done == CASE operation = "connect" -> Connect(cap, is_connected, backend)
                      [] operation = "read_data" -> ReadData(cap, is_connected, backend)
                      [] OTHER -> Release(cap, is_connected, backend)
        IN  /\ cap' = done.state.cap
            /\ is_connected' = done.state.is_connected
            /\ capCall' = CapCallRecord("sensor", operation, backend, SensorState(cap, is_connected), done)
    /\ UNCHANGED <<model, llm_instance, agent>>
    /\ UNCHANGED <<tmVars, last, agentVars, storeVars, factoryVars, raceVars>>

\* A caller calls an operation of the ObjectDetector.
ModelCall ==
    /\ \E operation \in {"load_model", "predict"} :
       \E backend \in BackendOutcomes(operation) :
        LET done == IF operation = "load_model" THEN LoadYolo(model, backend)
                    ELSE Predict(model, backend)
        IN  /\ model' = done.state
            /\ capCall' = CapCallRecord("ml_model", operation, backend, model, done)
    /\ UNCHANGED <<cap, is_connected, llm_instance, agent>>
    /\ UNCHANGED <<tmVars, last, agentVars, storeVars, factoryVars, raceVars>>

\* A caller calls an operation of a LlamaCppProvider.
ProviderCall ==
    /\ \E p \in DOMAIN llm_instance, operation \in {"load_llm", "generate_response"} :
       \E backend \in BackendOutcomes(operation) :
        LET done == IF operation = "load_llm" THEN LoadLlm(llm_instance[p], backend)
                    ELSE GenerateResponse(llm_instance[p], backend)
        IN  /\ llm_instance' = [llm_instance EXCEPT ![p] = done.state]
            /\ capCall' = CapCallRecord(p, operation, backend, llm_instance[p], done)
    /\ UNCHANGED <<cap, is_connected, model, agent>>
    /\ UNCHANGED <<tmVars, last, agentVars, storeVars, factoryVars, raceVars>>

\* A sensor, a detector and one provider, just built by their factories.
InitCapabilities ==
    /\ TMInit
    /\ last = NoCall
    /\ AgentIdle
    /\ StoreIdle
    /\ FactoryIdle
    /\ Capabilities({"llm1"})
    /\ agent = NotConstructed

NextCapabilities == SensorCall \/ ModelCall \/ ProviderCall

SpecCapabilities == InitCapabilities /\ [][NextCapabilities]_vars

-----------------------------------------------------------------------------
(* Properties of the capability layer. *)

\* The value says that the operation failed: False, None, or a generation whose text
\* is an error message.
ErrorIndicated(result) ==
    \/ result \in {PyBool(FALSE), PyNone}
    \/ result.kind = "dict" /\ result.tokens_generated = 0

\* The backend was reached by the call observed and did not do its work.
BackendFailed == capCall.op # "none" /\ capCall.backend_reached /\ capCall.backend # "ok"

\* C27: no operation of a capability instance (connect, read_data, release,
\* load_model, predict, load_llm, generate_response) lets a backend failure escape as
\* an exception: it returns, and after a backend failure what it returns carries an
\* error indication.
C27_BackendFailuresContained ==
    capCall.op # "none" =>
        /\ capCall.raised = None
        /\ (BackendFailed /\ capCall.op # "release") => ErrorIndicated(capCall.result)

\* C28: after any sequence of connect (succeeding or failing), read_data and release
\* calls, read_data on a sensor that is not connected returns None without raising
\* and without reaching the camera, and no read_data call changes the capture or
\* the connected flag.
C28_ReadWhenNotConnected ==
    capCall.op = "read_data" =>
        /\ cap = capCall.before.cap
        /\ is_connected = capCall.before.is_connected
        /\ ~capCall.before.is_connected =>
            /\ capCall.raised = None
            /\ capCall.result = PyNone
            /\ ~capCall.backend_reached

\* read_data on a sensor that was connected and then released.
C28_Witness ==
    /\ capCall.op = "read_data"
    /\ capCall.before = SensorState("released", FALSE)
    /\ capCall.result = PyNone
    /\ capCall.backend = "ok"

\* C29: predict on a model that is not loaded returns an empty list without raising
\* and without calling the backend model; a load_model call whose backend fails
\* returns False and leaves the model unloaded.
C29_PredictUnloaded ==
    /\ (capCall.op = "predict" /\ capCall.before = None) =>
            /\ capCall.raised = None
            /\ capCall.result = EmptyList
            /\ ~capCall.backend_reached
            /\ model = None
    /\ (capCall.op = "load_model" /\ capCall.backend # "ok") =>
            /\ capCall.raised = None
            /\ capCall.result = PyBool(FALSE)
            /\ model = None

\* predict, its backend ready to answer, on a model that is not loaded.
C29_Witness ==
    /\ capCall.op = "predict"
    /\ capCall.before = None
    /\ capCall.backend = "ok"
    /\ capCall.result = EmptyList

-----------------------------------------------------------------------------
(* Agent.__init__ and _register_core_tools (agent.py lines 20-70), and the  *)
(* 'agent_llm_inference' tool executed on the constructed Agent.           *)

\* llm_provider_name: the built-in provider, and a name no provider is registered under.
ProviderNames == {"llama_cpp", "mock_llm"}

\* llm_config: one with a model_path, one that also names a provider nobody
\* registered, and an empty dict.
AgentConfigs == {"llm_config", "other_provider_config", "empty"}

\* Line 69: self.llm_provider.config.get("provider_name", "llama_cpp")
ProviderName(config) == IF config = "other_provider_config" THEN "openai" ELSE "llama_cpp"

\* _register_core_tools without its second register_tool call.
RegisterShellOnly(config) ==
    RegisterSpec(EmptyDict, EmptyDict, EmptyDict, ToolSpec("run_shell_command", "true", "_run_shell_command_impl", None, None, None))

\* _register_core_tools, lines 43-70, on the new ToolManager.
RegisterCoreTools(config) ==
    LET r == RegisterSpec(EmptyDict, EmptyDict, EmptyDict, ToolSpec("run_shell_command", "true", "_run_shell_command_impl", None, None, None))
    IN  RegisterSpec(r.tools, r.impls, r.insts, ToolSpec("agent_llm_inference", "false", None, "llm", ProviderName(config), config))

\* The provider objects alive after register_tool: line 53 of tool_manager.py builds a
\* new one, whose provider_id is the tool's name.
ProviderObject(tool_name) == tool_name

AgentOutcome(status, error, provider, loaded, registry, objects) ==
    [agent |-> [status |-> status, error |-> error, llm_provider |-> provider, load_llm |-> loaded],
     tools |-> registry.tools, impls |-> registry.impls, insts |-> registry.insts,
     llm_instance |-> objects]

NoTools == [tools |-> EmptyDict, impls |-> EmptyDict, insts |-> EmptyDict, error |-> None]

\* Lines 33-41: the provider is created and loaded, then the core tools registered.
ConstructAgent(registry, name, config, backend) ==
    LET created == CreateInstance(registry, name, "agent_llm", config)
        loaded == LoadLlm(None, backend)
        core == RegisterCoreTools(config)
        own == [p \in {"agent_llm"} |-> loaded.state]
    IN  IF created.raised # None
        THEN AgentOutcome("raised", created.raised, None, None, NoTools, EmptyDict)
        ELSE IF ~Truthy(loaded.result)
        THEN AgentOutcome("raised", "RuntimeError", None, "False", NoTools, own)
        ELSE IF core.error # None
        THEN AgentOutcome("raised", "ValueError", None, "True", core, own)
        ELSE AgentOutcome("constructed", None, "agent_llm", "True", core,
                          [p \in {"agent_llm", ProviderObject("agent_llm_inference")} |->
                              IF p = "agent_llm" THEN loaded.state ELSE None])

\* A caller constructs an Agent; the WorkingMemoryManager it builds first makes sure
\* of the session.
AgentInit ==
    /\ agent.status # "constructed"
    /\ now < MaxClock
    /\ \E S \in SessionIds, project_root \in ProjectRoots, name \in ProviderNames,
          config \in AgentConfigs, backend \in BackendOutcomes("load_llm") :
        LET ensured == EnsureSession(sessions, S, project_root, now)
            built == ConstructAgent(registries["llm"], name, config, backend)
        IN  /\ sessions' = ensured.table
            /\ storeCall' = [op |-> "init", session_id |-> S, project_root |-> project_root,
                             before |-> GetSession(sessions, S),
                             created |-> ensured.created, raised |-> ensured.raised]
            /\ clear' = IF ensured.created THEN Written(S) ELSE clear
            /\ agent' = built.agent
            /\ tools' = built.tools
            /\ impls' = built.impls
            /\ insts' = built.insts
            /\ llm_instance' = built.llm_instance
            /\ capCall' = [op |-> "init", name |-> name, config |-> config, backend |-> backend]
    /\ now' = now + 1
    /\ UNCHANGED <<lastOk, last, agentVars, factoryVars, cap, is_connected, model, raceVars>>
    /\ UNCHANGED <<messages, code_entities, relationships, session_data_table,
                   sqlite_sequence, added, lastSet, conversation_history>>

\* The args a planned step hands the LLM tool.
LLMToolArgs ==
    { [operation |-> "generate_response", prompt |-> "prompt_value"],
      [prompt |-> "prompt_value", max_tokens |-> "n_tokens"],
      [operation |-> "load_llm"] }

\* execute_tool('agent_llm_inference', args) on the constructed Agent's ToolManager:
\* the method the dispatch invokes runs on the provider object register_tool built.
ExecuteLLMTool ==
    /\ agent.status = "constructed"
    /\ \E args \in LLMToolArgs, rc \in BOOLEAN :
        LET out == ExecuteTool(tools, impls, insts, "agent_llm_inference", args, rc, None, FALSE)
            p == ProviderObject("agent_llm_inference")
            method == out.events[1].method
        IN  /\ out.raised = None
            /\ \E backend \in BackendOutcomes(method) :
                LET done == IF method = "load_llm" THEN LoadLlm(llm_instance[p], backend)
                            ELSE GenerateResponse(llm_instance[p], backend)
                IN  /\ llm_instance' = [llm_instance EXCEPT ![p] = done.state]
                    /\ capCall' = CapCallRecord(p, method, backend, llm_instance[p], done)
            /\ last' = [op |-> "execute", name |-> "agent_llm_inference", args |-> args,
                        rc |-> rc, reply |-> None, implRaises |-> FALSE, out |-> out]
    /\ UNCHANGED <<tmVars, agentVars, storeVars, factoryVars, cap, is_connected, model, agent, raceVars>>

NextAgentInit == AgentInit \/ ExecuteLLMTool

SpecAgentInit == Init /\ [][NextAgentInit]_vars

\* Agent.__init__ has been called and has returned or raised.
InitEnded == agent.status # "none"

\* C23: if load_llm returns false, Agent construction fails with a RuntimeError and no
\* core tool is registered; when construction completes, the ToolManager holds
\* 'run_shell_command', a direct callable with side_effects=true, and
\* 'agent_llm_inference', backed by an LLM instance, with side_effects=false.
C23_ConstructionRegistersCoreTools ==
    /\ (InitEnded /\ agent.load_llm = "False") =>
            /\ agent.status = "raised"
            /\ agent.error = "RuntimeError"
            /\ tools = EmptyDict /\ impls = EmptyDict /\ insts = EmptyDict
    /\ agent.status = "constructed" =>
            /\ agent.load_llm = "True"
            /\ {"run_shell_command", "agent_llm_inference"} \subseteq DOMAIN tools
            /\ "run_shell_command" \in DOMAIN impls \ DOMAIN insts
            /\ tools["run_shell_command"].side_effects = "true"
            /\ "agent_llm_inference" \in DOMAIN insts \ DOMAIN impls
            /\ insts["agent_llm_inference"].kind = "llm"
            /\ tools["agent_llm_inference"].side_effects = "false"

\* An Agent whose first construction failed on load_llm is constructed at the second
\* attempt.
C23_Witness ==
    /\ agent.status = "constructed"
    /\ now = 2
    /\ capCall.op = "init"
    /\ DOMAIN tools = {"run_shell_command", "agent_llm_inference"}

\* C24: executing 'agent_llm_inference' with operation generate_response runs the
\* generation on the Agent's own provider, the object the Agent loaded at
\* construction, so on a loaded LLM.
C24_LLMToolIsAgentsOwn ==
    (/\ agent.status = "constructed"
     /\ last.op = "execute"
     /\ last.name = "agent_llm_inference"
     /\ capCall.op = "generate_response")
    => /\ capCall.target = agent.llm_provider
       /\ capCall.before # None
       /\ capCall.backend = "ok" => capCall.result.tokens_generated > 0

-----------------------------------------------------------------------------
(* register_tool observed with its arguments. *)

\* A caller calls register_tool on a ToolManager that holds no tool yet; the call is
\* kept with all its arguments.  What register_tool accepts does not depend on what
\* the registry holds.
RegisterToolCall ==
    /\ DOMAIN tools = {}
    /\ \E name \in ToolNames \cup {None} :
       \E se \in (IF name = None THEN {"absent"} ELSE SideEffectValues),
          ftype \in (IF name = None THEN {None} ELSE FactoryTypes) :
       \E impl \in ImplementationsFor(ftype), fname \in FactoryNamesFor(ftype),
          config \in ConfigsFor(ftype) :
        LET def == Definition(name, se)
            r == RegisterTool(tools, impls, insts, def, impl, ftype, fname, config)
        IN  /\ tools' = r.tools
            /\ impls' = r.impls
            /\ insts' = r.insts
            /\ lastOk' = IF r.error = None
                         THEN Put(lastOk, name, Registered(def, impl, ftype, config))
                         ELSE lastOk
            /\ last' = [op |-> "register_tool", definition |-> def, implementation |-> impl,
                        factory_type |-> ftype, factory_name |-> fname, config |-> config,
                        error |-> r.error]
    /\ UNCHANGED <<agentVars, otherVars>>

SpecRegister == Init /\ [][RegisterToolCall]_vars

\* The call supplies a direct implementation (for 'action' the implementation
\* argument is the class of the factory specification).
DirectSupplied(call) == call.implementation # None /\ call.factory_type # "action"

\* The call supplies a factory specification: factory_type with factory_name and
\* config, or 'action' with an ActionInterface class.
FactorySpecSupplied(call) ==
    IF call.factory_type = "action" THEN call.implementation = "ActionClass"
    ELSE /\ call.factory_type \in {"sensor", "ml_model", "llm"}
         /\ call.factory_name # None
         /\ call.config # None

\* C25: after any sequence of register_tool calls, successful or failing, every name
\* that has a tool definition has exactly one of a directly-callable implementation
\* and a capability instance, never both and never neither.
C25_ExactlyOneBacking ==
    \A n \in DOMAIN tools : (n \in DOMAIN impls) # (n \in DOMAIN insts)

\* C26: register_tool accepts a call only if the definition has a name and exactly
\* one of a direct implementation and a factory specification is supplied; a call
\* supplying neither, a call supplying a direct implementation together with a
\* sensor / ml_model / llm factory specification, and a call with an unknown
\* factory_type each fail with an error.
C26_ExactlyOneSupplied ==
    last.op = "register_tool" =>
        /\ last.error = None =>
            /\ last.definition.name # None
            /\ DirectSupplied(last) # FactorySpecSupplied(last)
        /\ (~DirectSupplied(last) /\ ~FactorySpecSupplied(last)) => last.error # None
        /\ (DirectSupplied(last) /\ FactorySpecSupplied(last)) => last.error # None
        /\ last.factory_type = "unknown_type" => last.error # None

\* ---------------------------------------------------------------------------
\* Agent._break_down_task: the seed plan (agent.py lines 139-167)
\* ---------------------------------------------------------------------------

MaxCapabilities == 2

\* Names the LLM may put under required_capabilities; only "video_camera" (under
\* "sensors") and "object_detection" (under "ml_models") are known conventions.
CapabilityNames == {"video_camera", "object_detection", "thermal_camera"}

CapabilityLists == UNION {[1..n -> CapabilityNames] : n \in 0..MaxCapabilities}

\* The value under one key of required_capabilities: the key is absent, its value
\* is JSON null, or a list of names.
KeyAbsent == [kind |-> "absent", items |-> <<>>]
KeyNull == [kind |-> "null", items |-> <<>>]
KeyList(items) == [kind |-> "list", items |-> items]

CapabilityValues == {KeyAbsent, KeyNull} \cup {KeyList(l) : l \in CapabilityLists}

RequiredCapabilities == [sensors : CapabilityValues, ml_models : CapabilityValues]

\* Lines 143-153: the two steps appended for one name of the "sensors" list.
SensorSteps(sensor_type) ==
    IF sensor_type = "video_camera"
    THEN << [description |-> "Connect to video_camera",
             tool_call |-> ToolCall("main_camera_sensor", [operation |-> "connect"])],
            [description |-> "Read frame from video_camera",
             tool_call |-> ToolCall("main_camera_sensor", [operation |-> "read_data"])] >>
    ELSE <<>>

\* Lines 157-167: the two steps appended for one name of the "ml_models" list.
ModelSteps(ml_model_type) ==
    IF ml_model_type = "object_detection"
    THEN << [description |-> "Load object_detection model",
             tool_call |-> ToolCall("object_detection_model", [operation |-> "load_model"])],
            [description |-> "Perform object_detection on frame",
             tool_call |-> ToolCall("object_detection_model",
                                    [operation |-> "predict", data |-> Placeholder])] >>
    ELSE <<>>

RECURSIVE SensorLoop(_)
SensorLoop(items) ==
    IF items = <<>> THEN <<>> ELSE SensorSteps(Head(items)) \o SensorLoop(Tail(items))

RECURSIVE ModelLoop(_)
ModelLoop(items) ==
    IF items = <<>> THEN <<>> ELSE ModelSteps(Head(items)) \o ModelLoop(Tail(items))

\* A seed with the model loop run before the sensor loop.
SeedPlanModelsFirst(required_capabilities) ==
    [raised |-> None,
     plan_steps |-> ModelLoop(required_capabilities.ml_models.items)
                    \o SensorLoop(required_capabilities.sensors.items)]

\* Lines 139-167: plan_steps after the two loops; iterating a null value raises
\* TypeError, in the sensor loop with the steps so far empty, in the model loop
\* after the sensor steps were appended.
SeedPlan(required_capabilities) ==
    IF required_capabilities.sensors.kind = "null"
    THEN [raised |-> "TypeError", plan_steps |-> <<>>]
    ELSE IF required_capabilities.ml_models.kind = "null"
    THEN [raised |-> "TypeError",
          plan_steps |-> SensorLoop(required_capabilities.sensors.items)]
    ELSE [raised |-> None,
          plan_steps |-> SensorLoop(required_capabilities.sensors.items)
                         \o ModelLoop(required_capabilities.ml_models.items)]

\* The planning LLM's answers of at most one step.
SeedResponses == {response \in PlanResponses : Len(response.steps) <= 1}

\* _break_down_task called on a dict: the seed is computed, then (unless the seed
\* loops raised) the LLM is asked with the seed in its prompt and its answer,
\* parsed, is what the method returns.
BreakDownSeed ==
    /\ last = NoCall
    /\ \E required_capabilities \in RequiredCapabilities, response \in SeedResponses :
        LET seed == SeedPlan(required_capabilities)
        IN  last' = [op |-> "_break_down_task",
                     required_capabilities |-> required_capabilities,
                     plan_steps |-> seed.plan_steps,
                     raised |-> seed.raised,
                     prompted |-> seed.raised = None,
                     returned |-> IF seed.raised = None THEN RefinedPlan(response)
                                  ELSE [type |-> "none", steps |-> <<>>]]
    /\ UNCHANGED <<tmVars, agentVars, otherVars>>

SpecBreakDown == InitAgent /\ [][BreakDownSeed]_vars

\* The tool a seed step calls and the operation it asks for.
StepTarget(step) == <<step.tool_call.tool_name, step.tool_call.args.operation>>

RECURSIVE Count(_, _)
Count(items, name) ==
    IF items = <<>> THEN 0
    ELSE (IF Head(items) = name THEN 1 ELSE 0) + Count(Tail(items), name)

BalconyCapabilities ==
    [sensors |-> KeyList(<<"video_camera">>), ml_models |-> KeyList(<<"object_detection">>)]

SeedOf(call) ==
    /\ call.op = "_break_down_task"
    /\ call.raised = None

\* The target of the seed step at position i when the input names video_camera
\* cameras times and object_detection detectors times.
ExpectedTarget(i, cameras, detectors) ==
    IF i <= 2 * cameras
    THEN <<"main_camera_sensor", IF i % 2 = 1 THEN "connect" ELSE "read_data">>
    ELSE <<"object_detection_model", IF (i - 2 * cameras) % 2 = 1 THEN "load_model" ELSE "predict">>

\* C30: the seed plan of Break Down is determined by required_capabilities alone,
\* whatever the LLM answers afterwards: for sensors [video_camera] and ml_models
\* [object_detection] it is camera connect, camera read, model load, predict, in
\* this order; every sensor step precedes every model step; only the names
\* video_camera (under sensors) and object_detection (under ml_models) add steps,
\* two each, so the targets of the seed are a function of how often the two names
\* occur.
C30_SeedPlanDeterministic ==
    SeedOf(last) =>
        LET cameras == Count(last.required_capabilities.sensors.items, "video_camera")
            detectors == Count(last.required_capabilities.ml_models.items, "object_detection")
        IN  /\ last.required_capabilities = BalconyCapabilities =>
                  /\ Len(last.plan_steps) = 4
                  /\ StepTarget(last.plan_steps[1]) = <<"main_camera_sensor", "connect">>
                  /\ StepTarget(last.plan_steps[2]) = <<"main_camera_sensor", "read_data">>
                  /\ StepTarget(last.plan_steps[3]) = <<"object_detection_model", "load_model">>
                  /\ StepTarget(last.plan_steps[4]) = <<"object_detection_model", "predict">>
            /\ \A i, j \in 1..Len(last.plan_steps) :
                  /\ last.plan_steps[i].tool_call.tool_name = "main_camera_sensor"
                  /\ last.plan_steps[j].tool_call.tool_name = "object_detection_model"
                  => i < j
            /\ Len(last.plan_steps) = 2 * cameras + 2 * detectors
            /\ \A i \in 1..Len(last.plan_steps) :
                  StepTarget(last.plan_steps[i]) = ExpectedTarget(i, cameras, detectors)

\* The balcony scenario's capabilities were broken down and the LLM was asked.
C30_Witness ==
    /\ SeedOf(last)
    /\ last.required_capabilities = BalconyCapabilities
    /\ Len(last.plan_steps) = 4
    /\ last.prompted
    /\ last.returned.type = "list"

-----------------------------------------------------------------------------
(* execute_tool and a direct callable that raises (tool_manager.py 150-156). *)

\* The observed execute_tool call invoked a direct callable, which raised an
\* Exception (exits such as KeyboardInterrupt and SystemExit are not Exceptions and
\* are not what implRaises stands for).
CallableRaised ==
    /\ Observed
    /\ last.implRaises
    /\ \E i \in 1..Len(last.out.events) :
          /\ last.out.events[i].e = "invoke"
          /\ last.out.events[i].target.kind = "callable"

\* C31: when the direct callable of a tool raises during execute_tool, nothing is
\* raised to the caller: execute_tool returns the error result, status 'error' with
\* the exception's text as message.
C31_CallableExceptionContained ==
    CallableRaised =>
        /\ last.out.raised = None
        /\ last.out.result = ErrorResult
        /\ last.out.result.status = "error"

\* A gated callable was confirmed with 'yes', ran and raised.
C31_Witness ==
    /\ CallableRaised
    /\ last.reply = "yes"
    /\ last.out.result = ErrorResult

-----------------------------------------------------------------------------
(* The sensor lifecycle (video_sensor.py lines 19-70). *)

\* VideoSensor.get_status, lines 58-70: "connected" is the flag; the frame size and
\* rate are read from a capture that is held and opened.
GetStatus(c, connected) == [connected |-> connected, frame_size_known |-> c = "open"]

\* The call observed is a connect that returned True.
ConnectSucceeded(call) ==
    /\ call.op = "connect"
    /\ call.raised = None
    /\ call.result = PyBool(TRUE)

\* One step of the lifecycle Disconnected -> Connected -> Disconnected: a connect
\* leaves the sensor Connected exactly when it succeeded, and Disconnected without a
\* capture handle otherwise; a release leaves it Disconnected; nothing else moves it.
LifecycleStep ==
    /\ capCall'.op = "connect" =>
          /\ GetStatus(cap', is_connected').connected = ConnectSucceeded(capCall')
          /\ ~ConnectSucceeded(capCall') => cap' = None
    /\ capCall'.op = "release" => ~GetStatus(cap', is_connected').connected
    /\ capCall'.op \notin {"connect", "release"} =>
          GetStatus(cap', is_connected').connected = GetStatus(cap, is_connected).connected

\* C32: a new sensor reports connected = false, and after any sequence of connect
\* and release calls get_status reports connected = true if and only if the most
\* recent connect succeeded and no release was called after it; a connect that did
\* not succeed leaves the sensor Disconnected with no capture handle.
C32_SensorLifecycle ==
    /\ ~GetStatus(cap, is_connected).connected
    /\ [][LifecycleStep]_vars

\* The same steps when no backend call raises: the lifecycle of the sensor whose
\* OpenCV calls return.
LifecycleStepReturning == capCall'.raised = None => LifecycleStep

LifecycleWhenBackendReturns ==
    /\ ~GetStatus(cap, is_connected).connected
    /\ [][LifecycleStepReturning]_vars

-----------------------------------------------------------------------------
(* The carried state of _execute_plan (agent.py lines 190-236). *)

\* Step k of the plan is behind the Execute stage: the loop is past it, or the
\* stage is over (by returning or by raising).
StepBehind(k) == pc # "execute" \/ pos > k

\* The execute_tool call invoked the detection model's predict.
PredictInvoked(c) == c.name = "object_detection_model" /\ Invoked(c, "predict")

\* C33: within one Execute run a predict step invokes the detection model if and
\* only if an earlier step of the same plan read a non-empty reading from the camera
\* and an earlier step of the same plan loaded the model successfully; the data it
\* hands over is the reading of the most recent such read; and a run starts with no
\* reading and no loaded model, whatever an earlier process_directive call captured
\* or loaded.
C33_CarriedState ==
    /\ \A j \in 1..Len(calls) :
          PredictInvoked(calls[j]) =>
              /\ FrameReads(calls[j].pos) # {}
              /\ ModelLoads(calls[j].pos) # {}
              /\ calls[j].args["data"] = CapturedFrame(calls[j].pos)
    /\ \A k \in 1..Len(plan.steps) :
          (/\ IsPredictStep(plan.steps[k])
           /\ StepBehind(k)
           /\ FrameReads(k) # {}
           /\ ModelLoads(k) # {})
          => \E j \in CallsOf(k) : PredictInvoked(calls[j])
    /\ (pc = "execute" /\ pos = 1) =>
          /\ current_frame = PyNone
          /\ loaded_models = EmptyDict

\* The same without the "if" direction for runs that a raise ended: what the loop
\* does with the steps it completes.
CarriedStateOfCompletedSteps ==
    /\ \A j \in 1..Len(calls) :
          PredictInvoked(calls[j]) =>
              /\ FrameReads(calls[j].pos) # {}
              /\ ModelLoads(calls[j].pos) # {}
              /\ calls[j].args["data"] = CapturedFrame(calls[j].pos)
    /\ \A k \in 1..Len(results) :
          (/\ IsPredictStep(plan.steps[k])
           /\ FrameReads(k) # {}
           /\ ModelLoads(k) # {})
          => \E j \in CallsOf(k) : PredictInvoked(calls[j])
    /\ (pc = "execute" /\ pos = 1) =>
          /\ current_frame = PyNone
          /\ loaded_models = EmptyDict

-----------------------------------------------------------------------------
(* Referential integrity of the store (long_term_memory_manager.py lines   *)
(* 23-75: the FOREIGN KEY clauses; sqlite3 enforces none of them unless    *)
(* PRAGMA foreign_keys is set, and no connection of the code sets it).     *)

\* A WorkingMemoryManager of session S has been constructed: its session row is in
\* the store, or the clear_session that removed the row is the one running or the
\* last that ran.
ManagerOf(S) ==
    \/ Rows(sessions, S) # {}
    \/ clear.status # "idle" /\ clear.session_id = S

\* The operations are called one after the other: none starts while a
\* clear_session is between two of its statements.
NoCallRunning == clear.status # "running"

\* The operations of the facade, called on a manager that was constructed.
ManagerInit == NoCallRunning /\ WMInit
ManagerAddMessage == NoCallRunning /\ WMAddMessage /\ ManagerOf(storeCall'.session_id)
ManagerUpdateSessionData == NoCallRunning /\ WMUpdateSessionData /\ ManagerOf(storeCall'.session_id)
ManagerScansFile == NoCallRunning /\ InitCommandFile /\ ManagerOf(storeCall'.session_id)
ManagerAddRelationship == NoCallRunning /\ WMAddRelationship /\ ManagerOf(storeCall'.session_id)
ManagerClearSession == WMClearSession /\ ManagerOf(storeCall'.session_id)

NextIntegrity ==
    \/ ManagerInit
    \/ ManagerAddMessage
    \/ ManagerUpdateSessionData
    \/ ManagerScansFile
    \/ ManagerAddRelationship
    \/ ManagerClearSession
    \/ ClearNextStatement

SpecIntegrity == Init /\ [][NextIntegrity]_vars

\* FOREIGN KEY (session_id) REFERENCES sessions(session_id)
SessionExists(S) == Rows(sessions, S) # {}

\* FOREIGN KEY (source_entity_id / target_entity_id) REFERENCES code_entities(entity_id)
EntityExists(entity_id) == \E e \in code_entities : e.entity_id = entity_id

\* C34: in every state every message, code-entity, relationship and session-data
\* row references a session row that exists, and every relationship references
\* code entities that exist, whatever WorkingMemoryManager operations were called,
\* writes after a clear_session through the same manager included.
C34_ReferentialIntegrity ==
    /\ \A r \in messages : SessionExists(r.session_id)
    /\ \A r \in code_entities : SessionExists(r.session_id)
    /\ \A r \in session_data_table : SessionExists(r.session_id)
    /\ \A r \in relationships :
          /\ SessionExists(r.session_id)
          /\ EntityExists(r.source_entity_id)
          /\ EntityExists(r.target_entity_id)

-----------------------------------------------------------------------------
(* register_tool calls that fail (tool_manager.py lines 33-67). *)

\* get_all_tool_definitions, lines 75-79: the definitions held.
GetAllToolDefinitions(t) == {t[n] : n \in DOMAIN t}

\* The step is a register_tool call that raised.
RegisterFailed == last'.op = "register" /\ last'.raised /\ last' # last

\* What a failed call leaves alone: the three dicts, so what get_tool_definition
\* and get_all_tool_definitions return and what execute_tool finds.
RegistryAsBefore ==
    /\ UNCHANGED <<tools, impls, insts>>
    /\ \A n \in ToolNames : GetToolDefinition(tools', n) = GetToolDefinition(tools, n)
    /\ GetAllToolDefinitions(tools') = GetAllToolDefinitions(tools)

\* C35: a register_tool call that fails (no name, unknown factory_type, incomplete
\* factory specification, factory error, neither implementation nor factory) leaves
\* the registry as it was: no definition is added or replaced, and
\* get_tool_definition, get_all_tool_definitions and execute_tool behave as before.
C35_FailedRegisterLeavesRegistry == [][RegisterFailed => RegistryAsBefore]_vars

-----------------------------------------------------------------------------
(* execute_tool and the caller's args dict (tool_manager.py lines 108-149). *)

\* C36: execute_tool leaves the caller's args mapping as it was: whether the call
\* returned, was cancelled or raised, args has the same keys and values afterwards,
\* 'operation' included.
C36_ArgsUnchanged ==
    Observed =>
        /\ DOMAIN last.out.args = DOMAIN last.args
        /\ \A k \in DOMAIN last.args : last.out.args[k] = last.args[k]

-----------------------------------------------------------------------------
(* _execute_plan called on a deployed Agent (agent.py lines 186-260). *)

RECURSIVE RegisterAll(_, _)
\* The registry after the register_tool calls of specs, made in order on registry r.
RegisterAll(r, specs) ==
    IF specs = <<>> THEN r
    ELSE RegisterAll(RegisterSpec(r.tools, r.impls, r.insts, Head(specs)), Tail(specs))

\* The Agent's registry once the deployment has registered its capability tools.
DeployedTools == RegisterAll(CoreTools, CapabilityToolSpecs)

DeployedSpecs == CoreToolSpecs \o CapabilityToolSpecs

InitExecute ==
    /\ tools = DeployedTools.tools
    /\ impls = DeployedTools.impls
    /\ insts = DeployedTools.insts
    /\ lastOk = [n \in {DeployedSpecs[i].definition.name : i \in 1..Len(DeployedSpecs)} |->
                    LET reg == DeployedSpecs[CHOOSE i \in 1..Len(DeployedSpecs) :
                                                DeployedSpecs[i].definition.name = n]
                    IN  Registered(reg.definition, reg.implementation,
                                   reg.factory_type, reg.config)]
    /\ last = NoCall
    /\ AgentIdle
    /\ StoreIdle
    /\ FactoryIdle
    /\ AgentConstructed

\* A step that asks the detection model for its status: an operation of the
\* MLModelInterface that _execute_plan has no branch for.
ModelStatusStep ==
    [description |-> "model status",
     tool_call |-> ToolCall("object_detection_model", [operation |-> "get_status"])]

ExecSteps == StepSet \cup {ModelStatusStep}

ExecPlans == UNION {[1..n -> ExecSteps] : n \in 0..MaxPlanLen}

\* _execute_plan(plan) is called, lines 190-192: no result, no frame, no model.
ExecutePlanCall ==
    /\ pc = "idle"
    /\ directive < MaxDirectives
    /\ directive' = directive + 1
    /\ \E p \in ExecPlans : plan' = [type |-> "list", steps |-> p]
    /\ pos' = 1
    /\ results' = <<>>
    /\ current_frame' = PyNone
    /\ loaded_models' = EmptyDict
    /\ calls' = <<>>
    /\ stages' = <<>>
    /\ outcome' = NoOutcome
    /\ pc' = "execute"
    /\ UNCHANGED <<tmVars, last, otherVars, thought_log, refactored_data, final_insight,
                   session_data, session_writes>>

\* Line 260: the loop is over and the results are returned.
ExecutePlanReturned ==
    /\ pc = "execute"
    /\ pos > Len(plan.steps)
    /\ pc' = "idle"
    /\ outcome' = [status |-> "returned"]
    /\ UNCHANGED <<tmVars, last, otherVars, directive, thought_log, refactored_data, plan,
                   pos, results, current_frame, loaded_models, final_insight, session_data,
                   session_writes, calls, stages>>

NextExecute == ExecutePlanCall \/ ExecutePlanStep \/ ExecutePlanReturned

SpecExecute == InitExecute /\ [][NextExecute]_vars

HasToolCall(step) == DOMAIN Get(step, "tool_call", EmptyDict) # {}

\* C37: in the Execute stage every step result with status 'executed' of a step
\* that carries a tool_call stands for exactly one execute_tool call, made for that
\* step's tool, and every step result with status 'skipped' or 'no_tool_call'
\* stands for none.
C37_ResultsMatchCalls ==
    \A k \in 1..Len(results) :
        /\ (HasToolCall(plan.steps[k]) /\ results[k]["status"] = "executed") =>
              /\ Cardinality(CallsOf(k)) = 1
              /\ \A j \in CallsOf(k) : calls[j].name = plan.steps[k].tool_call.tool_name
        /\ results[k]["status"] \in {"skipped", "no_tool_call"} => CallsOf(k) = {}

-----------------------------------------------------------------------------
(* WorkingMemoryManager.__init__ called by two callers at once             *)
(* (working_memory_manager.py lines 26-31).  Each statement is a           *)
(* transaction of its own (_execute_query), which SQLite serializes; the   *)
(* SELECT of get_session and the INSERT of create_session are two of them. *)

\* Caller p calls WorkingMemoryManager(session_id=S, project_root=...).
ConstructCall(p) ==
    /\ constructing[p].at = "none"
    /\ \E S \in SessionIds, project_root \in ProjectRoots :
        constructing' = [constructing EXCEPT
                            ![p] = [at |-> "get_session", session_id |-> S,
                                    project_root |-> project_root, raised |-> None]]
    /\ UNCHANGED <<tmVars, last, agentVars, storeVars, factoryVars, capVars>>

\* Line 27: get_session; a session that is found ends __init__ (line 31).
ConstructGetSession(p) ==
    /\ constructing[p].at = "get_session"
    /\ constructing' = [constructing EXCEPT
                            ![p].at = IF Truthy(GetSession(sessions, constructing[p].session_id))
                                      THEN "done" ELSE "create_session"]
    /\ UNCHANGED <<tmVars, last, agentVars, storeVars, factoryVars, capVars>>

\* Line 28: create_session; the INSERT raises when the row is there by now.
ConstructCreateSession(p) ==
    /\ constructing[p].at = "create_session"
    /\ now < MaxClock
    /\ LET created == CreateSession(sessions, constructing[p].session_id,
                                    constructing[p].project_root, now)
       IN  /\ sessions' = created.table
           /\ constructing' = [constructing EXCEPT
                                  ![p].at = IF created.raised = None THEN "done" ELSE "raised",
                                  ![p].raised = created.raised]
    /\ now' = now + 1
    /\ UNCHANGED <<messages, code_entities, relationships, session_data_table,
                   sqlite_sequence, clear, storeCall, added, lastSet, conversation_history>>
    /\ UNCHANGED <<tmVars, last, agentVars, factoryVars, capVars>>

NextConstruct ==
    \E p \in Constructors :
        \/ ConstructCall(p)
        \/ ConstructGetSession(p)
        \/ ConstructCreateSession(p)

SpecConstruct == Init /\ [][NextConstruct]_vars

\* Both constructions are over, and they were for the same session id.
BothConstructedSame ==
    /\ \A p \in Constructors : constructing[p].at \in {"done", "raised"}
    /\ \A p, q \in Constructors : constructing[p].session_id = constructing[q].session_id

\* C38: when two WorkingMemoryManager instances are constructed at the same time for
\* one session id that the store does not hold yet, then under every interleaving
\* both constructions end without an error and the store holds exactly one session
\* row of that id.
C38_ConcurrentConstruction ==
    BothConstructedSame =>
        /\ \A p \in Constructors : constructing[p].at = "done" /\ constructing[p].raised = None
        /\ \A p \in Constructors : Cardinality(Rows(sessions, constructing[p].session_id)) = 1

\* The part that the PRIMARY KEY of sessions gives: one row at most per id.
OneRowPerSession == \A S \in SessionIds : Cardinality(Rows(sessions, S)) <= 1

====
